---------------------------- MODULE Spec2Model ----------------------------
(***************************************************************************)
(* State-machine model of mesh-mapper.py (WiFi-RemoteID): the detection    *)
(* store (tracked_pairs, detection_history), the FAA cache, the CSV logs,  *)
(* the flight-segmented KML exports and the HTTP handlers around them.     *)
(*                                                                         *)
(* A Python dict is a function whose DOMAIN is the set of keys present.    *)
(* Python objects live in `heap`; tracked_pairs and detection_history hold *)
(* references, so aliasing (or its absence, dict.copy()) is observable.    *)
(***************************************************************************)
EXTENDS Integers, Sequences, FiniteSets, TLC

VARIABLES
    heap,               \* object id -> dict (the detection dicts that are alive)
    tracked_pairs,      \* mac -> object id                     (line 47)
    detection_history,  \* sequence of object ids               (line 48)
    FAA_CACHE,          \* insertion-ordered dict: sequence of [key, val]  (line 129)
    faa_cache_file,     \* rows appended to faa_cache.csv
    faa_log,            \* rows appended to faa_log.csv
    ALIASES,            \* mac -> alias                         (line 109)
    aliases_file,       \* content of aliases.json
    csv_file,           \* session CSV: [header, rows]
    cum_csv_file,       \* cumulative CSV: [header, rows]
    kml_file,           \* session KML: mac -> sequence of flight folders
    cum_kml_file,       \* cumulative KML: mac -> sequence of flight folders
    WEBHOOK_URL,        \* "" stands for None                   (line 33)
    webhook_posts,      \* payloads handed to requests.post, in order
    now,                \* the wall clock (time.time(), datetime.now())
    resp,               \* the outcome of the last operation, as its caller sees it
    feed,               \* what the environment does in this run: [inputs, ops, gaps, faults, waits]
    received,           \* the records update_detection accepted, as they arrived
    io_failed,          \* an open() of a CSV log has raised in this run
    SELECTED_PORTS,     \* slot ("port1".."port3") -> device name   (line 51)
    serial_connected_status,  \* device name -> BOOLEAN        (line 55)
    last_mac_by_port,   \* device name -> mac                  (line 57)
    serial_objs,        \* device name -> the reader whose handle is stored (line 60)
    readers,            \* the serial_reader threads: [port, ser, detection]
    devices,            \* device name -> [present, sent]: plugged in, frames emitted so far
    kml_jobs,           \* the calls of generate_kml that are under way
    upd_jobs,           \* the calls of update_detection that are under way
    faa_request         \* the registry request of query_remote_id and its retries

vars == <<heap, tracked_pairs, detection_history, FAA_CACHE, faa_cache_file,
          faa_log, ALIASES, aliases_file, csv_file, cum_csv_file, kml_file,
          cum_kml_file, WEBHOOK_URL, webhook_posts, now, resp, feed, received,
          io_failed, SELECTED_PORTS, serial_connected_status, last_mac_by_port,
          serial_objs, readers, devices, kml_jobs, upd_jobs, faa_request>>

\* the state of the serial readers and of the devices they read
serialVars == <<SELECTED_PORTS, serial_connected_status, last_mac_by_port,
                serial_objs, readers, devices>>

----------------------------------------------------------------------------
(* Bounds of the model *)

MaxHist == 3        \* accepted updates per run
MaxTime == 130      \* the clock stops advancing here
MaxResolve == 1     \* registry lookups per run
MaxPts == 3         \* records of a history the segmentation is applied to

(* Program constants *)

staleThreshold == 60

\* line 399: requests.post(WEBHOOK_URL, json=detection, timeout=5)
WebhookTimeout == 5

----------------------------------------------------------------------------
(* Python dict and truthiness helpers *)

Has(d, k) == k \in DOMAIN d

Get(d, k, default) == IF k \in DOMAIN d THEN d[k] ELSE default

Put(d, k, v) == [x \in (DOMAIN d) \cup {k} |-> IF x = k THEN v ELSE d[x]]

EmptyDict == [x \in {} |-> 0]

\* bool(d.get(k)) for a string-valued key: None and "" are falsy
TruthyStr(d, k) == Has(d, k) /\ d[k] # ""

\* bool(d.get(k)) for a number-valued key: None and 0 are falsy
TruthyNum(d, k) == Has(d, k) /\ d[k] # 0

\* An optional value: <<>> is None, <<v>> is v
None == <<>>
Some(v) == <<v>>

Last(s) == s[Len(s)]


----------------------------------------------------------------------------
(* KML generation: flight segmentation (generate_kml, generate_cumulative_kml) *)

\* The dicts of detection_history, in append order
HistDicts == [i \in 1..Len(detection_history) |-> heap[detection_history[i]]]

\* line 204: `last_ts and (ts - last_ts) > staleThreshold`, last_ts a float or None
FlightBreak_ge(last_ts, ts) ==
    /\ last_ts # None
    /\ last_ts[1] # 0
    /\ (ts - last_ts[1]) >= staleThreshold

FlightBreak_always(last_ts, ts) == last_ts # None

FlightBreak(last_ts, ts) ==
    /\ last_ts # None
    /\ last_ts[1] # 0
    /\ (ts - last_ts[1]) > staleThreshold

\* line 315: `last_ts and (ts - last_ts).total_seconds() > staleThreshold`,
\* last_ts a datetime (always truthy) or None
CumFlightBreak(last_ts, ts) ==
    /\ last_ts # None
    /\ (ts - last_ts[1]) > staleThreshold

\* line 202 / 314: `if lat and lon`
ValidPoint(det) == TruthyNum(det, "drone_lat") /\ TruthyNum(det, "drone_long")

\* lines 221, 244, 332, 358: the entries the pilot-path comprehension compares
\* timestamps of (same mac, truthy pilot_lat and pilot_long)
PilotCandidates(history, mac) ==
    SelectSeq(history, LAMBDA d : /\ Get(d, "mac", "") = mac
                                  /\ TruthyNum(d, "pilot_lat")
                                  /\ TruthyNum(d, "pilot_long"))

\* lines 207-228 / 235-250: one <Folder> for a flushed flight
Folder(history, mac, alias, flight_idx, current_flight) ==
    LET start_ts == current_flight[1][3]
        end_ts   == Last(current_flight)[3]
        cands    == PilotCandidates(history, mac)
        \* None >= float raises TypeError
        raised   == \E i \in 1..Len(cands) : ~Has(cands[i], "last_update")
        inwin    == SelectSeq(cands, LAMBDA d : /\ Has(d, "last_update")
                                                /\ d["last_update"] >= start_ts
                                                /\ d["last_update"] <= end_ts)
    IN  [ idx    |-> flight_idx,
          alias  |-> alias,
          start  |-> start_ts,
          coords |-> current_flight,
          pilot  |-> [i \in 1..Len(inwin) |-> <<inwin[i]["pilot_long"], inwin[i]["pilot_lat"]>>],
          raised |-> raised ]

\* lines 197-232 / 308-344: the loop over the history for one mac, from entry i on.
\* st = [flight_idx, last_ts, current_flight, folders]; cumulative tells which of
\* the two generators runs
RECURSIVE ScanFlights(_, _, _, _, _, _)
ScanFlights(history, mac, alias, cumulative, i, st) ==
    IF i > Len(history) THEN st
    ELSE
      LET det == history[i] IN
      IF Get(det, "mac", "") # mac \/ ~ValidPoint(det)
      THEN ScanFlights(history, mac, alias, cumulative, i + 1, st)
      ELSE
        LET lat == det["drone_lat"]
            lon == det["drone_long"]
            ts  == det["last_update"]
            brk == IF cumulative THEN CumFlightBreak(st.last_ts, ts)
                   ELSE FlightBreak(st.last_ts, ts)
            flush == brk /\ Len(st.current_flight) >= 1
            folders1 == IF flush
                        THEN Append(st.folders,
                                    Folder(history, mac, alias, st.flight_idx, st.current_flight))
                        ELSE st.folders
            idx1 == IF flush THEN st.flight_idx + 1 ELSE st.flight_idx
            cur1 == IF brk THEN <<>> ELSE st.current_flight
        IN  ScanFlights(history, mac, alias, cumulative, i + 1,
                        [ flight_idx     |-> idx1,
                          last_ts        |-> Some(ts),
                          current_flight |-> Append(cur1, <<lon, lat, ts>>),
                          folders        |-> folders1 ])

\* The folders of one mac without the flush after the loop (lines 234-250 /
\* 346-364 left out)
Flights_noflush(history, mac, alias, cumulative) ==
    ScanFlights(history, mac, alias, cumulative, 1,
                [ flight_idx |-> 1, last_ts |-> None,
                  current_flight |-> <<>>, folders |-> <<>> ]).folders

\* lines 194-250 / 304-364: the folders of one mac, final flush included
Flights(history, mac, alias, cumulative) ==
    LET st == ScanFlights(history, mac, alias, cumulative, 1,
                          [ flight_idx |-> 1, last_ts |-> None,
                            current_flight |-> <<>>, folders |-> <<>> ])
    IN  IF st.current_flight # <<>>
        THEN Append(st.folders, Folder(history, mac, alias, st.flight_idx, st.current_flight))
        ELSE st.folders

\* line 165 / 281: macs = sorted({d['mac'] for d in history})
MacsOf(history) == { history[i]["mac"] : i \in 1..Len(history) }

\* lines 163-257: the document generate_kml builds from detection_history
\* (colours left out), and whether building it raises
generate_kml(history, aliases) ==
    LET doc == [mac \in MacsOf(history) |->
                   Flights(history, mac, Get(aliases, mac, ""), FALSE)]
    IN  [ doc    |-> doc,
          raised |-> \E mac \in DOMAIN doc : \E i \in 1..Len(doc[mac]) : doc[mac][i].raised ]

\* A CSV cell: '' is <<>>, str(v) is <<v>>
Cell(d, k) == IF Has(d, k) THEN <<d[k]>> ELSE <<>>

\* lines 274-277: `float(row[k]) if row[k] else 0.0`
ParseFloat(cell) == IF cell = <<>> THEN 0 ELSE cell[1]

\* lines 266-278: the rows of the cumulative CSV as generate_cumulative_kml reads them
read_cumulative_csv(rows) ==
    [i \in 1..Len(rows) |->
        [ mac         |-> rows[i].mac,
          last_update |-> rows[i].timestamp,
          drone_lat   |-> ParseFloat(rows[i].drone_lat),
          drone_long  |-> ParseFloat(rows[i].drone_long),
          pilot_lat   |-> ParseFloat(rows[i].pilot_lat),
          pilot_long  |-> ParseFloat(rows[i].pilot_long) ]]

\* lines 261-369: the document generate_cumulative_kml builds from the cumulative CSV
generate_cumulative_kml(rows, aliases) ==
    LET history == read_cumulative_csv(rows)
    IN  [mac \in MacsOf(history) |->
            Flights(history, mac, Get(aliases, mac, ""), TRUE)]

----------------------------------------------------------------------------
(* FAA cache (FAA_CACHE is a dict: insertion-ordered, one value per key) *)

CacheHas(cache, key) == \E i \in 1..Len(cache) : cache[i].key = key

CacheGet(cache, key) == cache[CHOOSE i \in 1..Len(cache) : cache[i].key = key].val

CachePut_keep(cache, key, val) == cache

\* FAA_CACHE[key] = val: an existing key keeps its place
CachePut(cache, key, val) ==
    IF CacheHas(cache, key)
    THEN [i \in 1..Len(cache) |-> IF cache[i].key = key
                                  THEN [key |-> key, val |-> val] ELSE cache[i]]
    ELSE Append(cache, [key |-> key, val |-> val])

CacheHasMac_never(cache, mac) == FALSE

\* lines 471-474, 625-628: `for (c_mac, _), v in FAA_CACHE.items(): if c_mac == mac`
CacheHasMac(cache, mac) == \E i \in 1..Len(cache) : cache[i].key[1] = mac

CacheFirstForMac(cache, mac) ==
    cache[CHOOSE i \in 1..Len(cache) :
            /\ cache[i].key[1] = mac
            /\ \A j \in 1..(i - 1) : cache[j].key[1] # mac].val

\* An open() of file raises OSError under fault: fault names the file that
\* cannot be written ("cache", "csv", "cum_csv", "cum_kml", "kml", "aliases"), "all" when
\* none can, "none" when all can
Fails(fault, file) == fault = file \/ fault = "all"

\* lines 142-158: write_to_faa_cache; st = [cache, file]. The file write is
\* inside try/except: a failure leaves the file as it was and is swallowed
write_to_faa_cache_unguarded(st, mac, remote_id, faa_data, fault) ==
    [ cache  |-> CachePut(st.cache, <<mac, remote_id>>, faa_data),
      file   |-> IF Fails(fault, "cache") THEN st.file
                 ELSE Append(st.file, [mac |-> mac, remote_id |-> remote_id,
                                       faa_response |-> faa_data]),
      raised |-> Fails(fault, "cache") ]

write_to_faa_cache(st, mac, remote_id, faa_data, fault) ==
    [ cache  |-> CachePut(st.cache, <<mac, remote_id>>, faa_data),
      file   |-> IF Fails(fault, "cache") THEN st.file
                 ELSE Append(st.file, [mac |-> mac, remote_id |-> remote_id,
                                       faa_response |-> faa_data]),
      raised |-> FALSE ]

\* json.dumps({}) of an absent faa_data
EmptyPayload == "{}"

----------------------------------------------------------------------------
(* DetectionStore: update_detection *)

\* Object ids: the n-th accepted update's dict is 2n-1, its history copy is 2n
DetId  == 2 * (Len(detection_history) + 1) - 1
CopyId == 2 * (Len(detection_history) + 1)

\* lines 395, 488: detection_history.append(detection.copy())
Snapshot_alias(det_id, copy_id) == det_id

Snapshot(det_id, copy_id) == copy_id

\* Objects no reference reaches are dropped
Reachable(h, tp, hist) ==
    LET live == { tp[m] : m \in DOMAIN tp } \cup { hist[i] : i \in 1..Len(hist) }
    IN  [id \in (DOMAIN h) \cap live |-> h[id]]

\* lines 382-383: `if not mac: return`
Rejected_none_only(detection) == ~Has(detection, "mac")

Rejected(detection) == ~TruthyStr(detection, "mac")

\* line 389: valid_drone
valid_drone(detection) ==
    Get(detection, "drone_lat", 0) # 0 /\ Get(detection, "drone_long", 0) # 0

\* lines 408-420, 428-440: the row of the no-GPS branch
NoFixCsvRow(detection, t) ==
    [ timestamp      |-> t,
      alias          |-> Get(ALIASES, detection["mac"], ""),
      mac            |-> detection["mac"],
      drone_lat      |-> <<Get(detection, "drone_lat", 0)>>,
      drone_long     |-> <<Get(detection, "drone_long", 0)>>,
      pilot_lat      |-> Cell(detection, "pilot_lat"),
      pilot_long     |-> Cell(detection, "pilot_long"),
      basic_id       |-> Get(detection, "basic_id", ""),
      faa_data       |-> Get(detection, "faa_data", EmptyPayload) ]

\* lines 495-507, 514-526: the row of the merge branch
CsvRow(detection, t) ==
    [ timestamp      |-> t,
      alias          |-> Get(ALIASES, detection["mac"], ""),
      mac            |-> detection["mac"],
      drone_lat      |-> Cell(detection, "drone_lat"),
      drone_long     |-> Cell(detection, "drone_long"),
      pilot_lat      |-> Cell(detection, "pilot_lat"),
      pilot_long     |-> Cell(detection, "pilot_long"),
      basic_id       |-> Get(detection, "basic_id", ""),
      faa_data       |-> Get(detection, "faa_data", EmptyPayload) ]

\* A CSV file after writer.writerow(row) in append mode
AppendRow_truncate(file, row) == [header |-> 0, rows |-> <<row>>]

AppendRow(file, row) == [file EXCEPT !.rows = Append(@, row)]

\* lines 450-456: defaults and the merge timestamp
Stamp_keep(detection, t) ==
    LET d1 == Put(detection, "drone_altitude", Get(detection, "drone_altitude", 0))
        d2 == Put(d1, "pilot_lat", Get(detection, "pilot_lat", 0))
        d3 == Put(d2, "pilot_long", Get(detection, "pilot_long", 0))
    IN  Put(d3, "last_update", Get(detection, "last_update", t))

Stamp(detection, t) ==
    LET d1 == Put(detection, "drone_altitude", Get(detection, "drone_altitude", 0))
        d2 == Put(d1, "pilot_lat", Get(detection, "pilot_lat", 0))
        d3 == Put(d2, "pilot_long", Get(detection, "pilot_long", 0))
    IN  Put(d3, "last_update", t)

\* lines 458-460: preserve the previous basic_id if the new detection lacks one
CarryBasicId(detection, mac) ==
    IF /\ ~TruthyStr(detection, "basic_id")
       /\ mac \in DOMAIN tracked_pairs
       /\ TruthyStr(heap[tracked_pairs[mac]], "basic_id")
    THEN Put(detection, "basic_id", heap[tracked_pairs[mac]]["basic_id"])
    ELSE detection

\* lines 461-477: the faa_data cascade
ResolveFaa(detection, mac) ==
    LET remote_id == Get(detection, "basic_id", "")
        d1 == IF remote_id # "" /\ CacheHas(FAA_CACHE, <<mac, remote_id>>)
              THEN Put(detection, "faa_data", CacheGet(FAA_CACHE, <<mac, remote_id>>))
              ELSE detection
        d2 == IF ~Has(d1, "faa_data") /\ CacheHasMac(FAA_CACHE, mac)
              THEN Put(d1, "faa_data", CacheFirstForMac(FAA_CACHE, mac))
              ELSE d1
    IN  IF /\ ~Has(d2, "faa_data")
           /\ mac \in DOMAIN tracked_pairs
           /\ Has(heap[tracked_pairs[mac]], "faa_data")
        THEN Put(d2, "faa_data", heap[tracked_pairs[mac]]["faa_data"])
        ELSE d2

\* The dicts detection_history would hold for heap h and history hist
DictsOf(h, hist) == [i \in 1..Len(hist) |-> h[hist[i]]]

\* lines 391-448: the no-GPS branch. The result names the new value of every
\* structure update_detection touches, whether it raised, whether a write failed
\* and the clock reading at its end. wait is the time requests.post takes
NoFixUpdate(detection, t, fault, wait) ==
    LET mac   == detection["mac"]
        tp1   == Put(tracked_pairs, mac, DetId)
        hist1 == Append(detection_history, Snapshot(DetId, CopyId))
        heap1 == Reachable(Put(Put(heap, DetId, detection), CopyId, detection), tp1, hist1)
        hook  == WEBHOOK_URL # ""
        posts1 == IF hook THEN Append(webhook_posts, detection) ELSE webhook_posts
        t1    == IF hook THEN t + wait ELSE t
        row   == NoFixCsvRow(detection, t1)
        csv1  == AppendRow(csv_file, row)
        cum1  == AppendRow(cum_csv_file, row)
        c0    == [cache |-> FAA_CACHE, file |-> faa_cache_file, raised |-> FALSE]
        k     == generate_kml(DictsOf(heap1, hist1), ALIASES)
        ok_csv  == ~Fails(fault, "csv")
        ok_cum  == ok_csv /\ ~Fails(fault, "cum_csv")
        ok_ckml == ok_cum /\ ~Fails(fault, "cum_kml")
        caches  == ok_ckml /\ TruthyStr(detection, "basic_id")
        c1    == IF caches
                 THEN write_to_faa_cache(c0, mac, detection["basic_id"],
                                         Get(detection, "faa_data", EmptyPayload), fault)
                 ELSE c0
        ok_kml  == ok_ckml /\ ~c1.raised /\ ~k.raised /\ ~Fails(fault, "kml")
    IN  [ accepted |-> TRUE, raised |-> ~ok_kml,
          io_failed |-> \/ ~ok_ckml
                        \/ caches /\ Fails(fault, "cache")
                        \/ ~k.raised /\ Fails(fault, "kml"),
          end |-> t1,
          heap |-> heap1, tracked_pairs |-> tp1, detection_history |-> hist1,
          cache |-> c1.cache, cache_file |-> c1.file,
          csv |-> IF ok_csv THEN csv1 ELSE csv_file,
          cum_csv |-> IF ok_cum THEN cum1 ELSE cum_csv_file,
          cum_kml |-> IF ok_ckml THEN generate_cumulative_kml(cum1.rows, ALIASES)
                      ELSE cum_kml_file,
          kml |-> IF ok_kml THEN k.doc ELSE kml_file,
          posts |-> posts1 ]

\* lines 450-529: the merge branch
MergeUpdate(detection, t, fault) ==
    LET mac   == detection["mac"]
        d1    == ResolveFaa(CarryBasicId(Stamp(detection, t), mac), mac)
        c0    == [cache |-> FAA_CACHE, file |-> faa_cache_file, raised |-> FALSE]
        caches == Has(d1, "faa_data")
        c1    == IF caches
                 THEN write_to_faa_cache(c0, mac, Get(d1, "basic_id", ""), d1["faa_data"],
                                         fault)
                 ELSE c0
        tp1   == Put(tracked_pairs, mac, DetId)
        hist1 == Append(detection_history, Snapshot(DetId, CopyId))
        heap1 == Reachable(Put(Put(heap, DetId, d1), CopyId, d1), tp1, hist1)
        row   == CsvRow(d1, t)
        csv1  == AppendRow(csv_file, row)
        cum1  == AppendRow(cum_csv_file, row)
        k     == generate_kml(DictsOf(heap1, hist1), ALIASES)
        ok_mem  == ~c1.raised
        ok_csv  == ok_mem /\ ~Fails(fault, "csv")
        ok_cum  == ok_csv /\ ~Fails(fault, "cum_csv")
        ok_ckml == ok_cum /\ ~Fails(fault, "cum_kml")
        ok_kml  == ok_ckml /\ ~k.raised /\ ~Fails(fault, "kml")
    IN  [ accepted |-> ok_mem, raised |-> ~ok_kml,
          io_failed |-> \/ ~ok_ckml
                        \/ caches /\ Fails(fault, "cache")
                        \/ ~k.raised /\ Fails(fault, "kml"),
          end |-> t,
          heap |-> IF ok_mem THEN heap1 ELSE heap,
          tracked_pairs |-> IF ok_mem THEN tp1 ELSE tracked_pairs,
          detection_history |-> IF ok_mem THEN hist1 ELSE detection_history,
          cache |-> c1.cache, cache_file |-> c1.file,
          csv |-> IF ok_csv THEN csv1 ELSE csv_file,
          cum_csv |-> IF ok_cum THEN cum1 ELSE cum_csv_file,
          cum_kml |-> IF ok_ckml THEN generate_cumulative_kml(cum1.rows, ALIASES)
                      ELSE cum_kml_file,
          kml |-> IF ok_kml THEN k.doc ELSE kml_file,
          posts |-> webhook_posts ]

\* lines 380-529: update_detection(detection), the clock reading t
update_detection(detection, t, fault, wait) ==
    IF Rejected(detection)
    THEN [ accepted |-> FALSE, raised |-> FALSE, io_failed |-> FALSE, end |-> t,
           heap |-> heap, tracked_pairs |-> tracked_pairs,
           detection_history |-> detection_history,
           cache |-> FAA_CACHE, cache_file |-> faa_cache_file,
           csv |-> csv_file, cum_csv |-> cum_csv_file,
           cum_kml |-> cum_kml_file, kml |-> kml_file,
           posts |-> webhook_posts ]
    ELSE IF ~valid_drone(detection)
    THEN NoFixUpdate(detection, t, fault, wait)
    ELSE MergeUpdate(detection, t, fault)

\* The state after update_detection returned (or raised) with result r
ApplyUpdate(r) ==
    /\ heap' = r.heap
    /\ tracked_pairs' = r.tracked_pairs
    /\ detection_history' = r.detection_history
    /\ FAA_CACHE' = r.cache
    /\ faa_cache_file' = r.cache_file
    /\ csv_file' = r.csv
    /\ cum_csv_file' = r.cum_csv
    /\ cum_kml_file' = r.cum_kml
    /\ kml_file' = r.kml
    /\ webhook_posts' = r.posts
    /\ io_failed' = (io_failed \/ r.io_failed)

----------------------------------------------------------------------------
(* GET /api/paths *)

\* lines 3104-3111: dedupe(path), the loop from path[i] on
RECURSIVE dedupe_loop(_, _, _)
dedupe_loop(path, i, new_path) ==
    IF i > Len(path) THEN new_path
    ELSE dedupe_loop(path, i + 1,
                     IF path[i] # Last(new_path) THEN Append(new_path, path[i])
                     ELSE new_path)

dedupe_none(path) == path

dedupe(path) ==
    IF path = <<>> THEN path ELSE dedupe_loop(path, 2, <<path[1]>>)

\* lines 3092-3103: the points api_paths collects for one mac and one pair of keys
PathPoints_unfiltered(history, mac, klat, klong) ==
    LET sel == SelectSeq(history, LAMBDA det : Get(det, "mac", "") = mac)
    IN  [i \in 1..Len(sel) |-> <<Get(sel[i], klat, 0), Get(sel[i], klong, 0)>>]

PathPoints(history, mac, klat, klong) ==
    LET sel == SelectSeq(history, LAMBDA det :
                   /\ Get(det, "mac", "") = mac
                   /\ Get(det, klat, 0) # 0
                   /\ Get(det, klong, 0) # 0)
    IN  [i \in 1..Len(sel) |-> <<sel[i][klat], sel[i][klong]>>]

\* lines 3088-3114: the body of the /api/paths response
api_paths(history) ==
    LET macs   == { Get(history[i], "mac", "") : i \in 1..Len(history) } \ {""}
        dmacs  == { m \in macs : PathPoints(history, m, "drone_lat", "drone_long") # <<>> }
        pmacs  == { m \in macs : PathPoints(history, m, "pilot_lat", "pilot_long") # <<>> }
    IN  [ dronePaths |-> [m \in dmacs |->
                             dedupe(PathPoints(history, m, "drone_lat", "drone_long"))],
          pilotPaths |-> [m \in pmacs |->
                             dedupe(PathPoints(history, m, "pilot_lat", "pilot_long"))] ]

----------------------------------------------------------------------------
(* The environment *)

Macs == {"A", "B"}

\* The clock readings an operation can get: the last reading plus one of the
\* gaps of this run
ClockReadings == { t \in { now + g : g \in feed.gaps } : t <= MaxTime }

\* No time passes between readings / more than staleThreshold may pass
NoGap == {0}
Gaps  == {0, staleThreshold + 1}

\* The CSV logs can always be opened / an open() may raise OSError
NoFault == {"none"}
Faults  == {"none", "cache", "csv", "cum_csv", "cum_kml", "kml", "all"}

\* aliases.json can always be opened / its open() may raise OSError
AliasFaults == {"none", "aliases"}

\* The time a webhook post takes: none, or all of its timeout
NoWait == {0}
Waits  == {0, WebhookTimeout}

\* Detections of a sensor whose fragments carry ids and registry data or not
FeedMerge ==
    [ inputs |-> { [mac |-> "A", drone_lat |-> 1, drone_long |-> 1, basic_id |-> "X"],
                   [mac |-> "A", drone_lat |-> 2, drone_long |-> 1],
                   [mac |-> "A", drone_lat |-> 1, drone_long |-> 1, basic_id |-> ""],
                   [mac |-> "A", drone_lat |-> 1, drone_long |-> 1, faa_data |-> "F1"],
                   [mac |-> "A", drone_lat |-> 0, drone_long |-> 0] },
      ops    |-> {"reactivate", "detections"},
      gaps   |-> NoGap,
      faults |-> NoFault,
      waits  |-> NoWait ]

\* Detections with drone and pilot positions, with and without a fix
FeedPaths ==
    [ inputs |-> { [mac |-> "A", drone_lat |-> 1, drone_long |-> 1,
                    pilot_lat |-> 5, pilot_long |-> 5],
                   [mac |-> "A", drone_lat |-> 2, drone_long |-> 1],
                   [mac |-> "A", drone_lat |-> 0, drone_long |-> 0],
                   [mac |-> "A", drone_lat |-> 0, drone_long |-> 0,
                    pilot_lat |-> 6, pilot_long |-> 5],
                   [mac |-> "A", drone_lat |-> 1, drone_long |-> 0],
                   [mac |-> "B", drone_lat |-> 1, drone_long |-> 1] },
      ops    |-> {"paths"},
      gaps   |-> NoGap,
      faults |-> NoFault,
      waits  |-> NoWait ]

\* Two drones seen with pauses, one of them losing its fix at times
FeedFlights ==
    [ inputs |-> { [mac |-> "A", drone_lat |-> 1, drone_long |-> 1],
                   [mac |-> "A", drone_lat |-> 0, drone_long |-> 0],
                   [mac |-> "B", drone_lat |-> 1, drone_long |-> 1] },
      ops    |-> {"download_kml"},
      gaps   |-> Gaps,
      faults |-> NoFault,
      waits  |-> NoWait ]

\* Detections that carry their own last_update (the test harness's records)
StampedTrack ==
    << [mac |-> "A", drone_lat |-> 1, drone_long |-> 1, last_update |-> 0],
       [mac |-> "A", drone_lat |-> 2, drone_long |-> 1, last_update |-> 30],
       [mac |-> "A", drone_lat |-> 3, drone_long |-> 1, last_update |-> 200] >>

FeedStamps ==
    [ inputs |-> { StampedTrack[i] : i \in 1..Len(StampedTrack) },
      ops    |-> {"download_kml"},
      gaps   |-> Gaps,
      faults |-> NoFault,
      waits  |-> NoWait ]

\* Fragments without a mac among good records, a webhook configured or not
FeedReject ==
    [ inputs |-> { [drone_lat |-> 1, drone_long |-> 1, basic_id |-> "X"],
                   [mac |-> "", drone_lat |-> 1, drone_long |-> 1],
                   [mac |-> "A", drone_lat |-> 1, drone_long |-> 1],
                   [mac |-> "A", basic_id |-> "X"] },
      ops    |-> {"webhook"},
      gaps   |-> NoGap,
      faults |-> NoFault,
      waits  |-> Waits ]

\* The operator names and renames a drone while it is tracked
FeedAlias ==
    [ inputs |-> { [mac |-> "A", drone_lat |-> 1, drone_long |-> 1],
                   [mac |-> "A", drone_lat |-> 0, drone_long |-> 0] },
      ops    |-> {"alias", "download_cumulative_kml"},
      gaps   |-> NoGap,
      faults |-> NoFault,
      waits  |-> NoWait ]

\* Registry lookups between detections
FeedRegistry ==
    [ inputs |-> { [mac |-> "A", drone_lat |-> 1, drone_long |-> 1, basic_id |-> "X"],
                   [mac |-> "A", drone_lat |-> 2, drone_long |-> 1],
                   [mac |-> "A", drone_lat |-> 0, drone_long |-> 0] },
      ops    |-> {"query_faa"},
      gaps   |-> NoGap,
      faults |-> NoFault,
      waits  |-> NoWait ]

\* A registry lookup for a drone whose registry data came with a detection
FeedFallback ==
    [ inputs |-> { [mac |-> "A", drone_lat |-> 1, drone_long |-> 1, basic_id |-> "X",
                    faa_data |-> "F1"],
                   [mac |-> "A", drone_lat |-> 0, drone_long |-> 0, basic_id |-> "Y"] },
      ops    |-> {"query_faa"},
      gaps   |-> NoGap,
      faults |-> NoFault,
      waits  |-> NoWait ]

\* A registry lookup for a drone before or after a detection of it that brings
\* registry data of its own under another remote id, or of one without a fix;
\* the operator reactivates the drone when it has gone stale
FeedResolved ==
    [ inputs |-> { [mac |-> "A", drone_lat |-> 1, drone_long |-> 1, basic_id |-> "Y",
                    faa_data |-> "F1"],
                   [mac |-> "A", drone_lat |-> 0, drone_long |-> 0] },
      ops    |-> {"query_faa", "get_faa", "reactivate"},
      gaps   |-> {staleThreshold + 1},
      faults |-> NoFault,
      waits  |-> NoWait ]

\* A sensor that repeats what it said, at once, at the stale threshold or later
FeedRepeat ==
    [ inputs |-> { [mac |-> "A", drone_lat |-> 1, drone_long |-> 1],
                   [mac |-> "A", drone_lat |-> 0, drone_long |-> 0] },
      ops    |-> {"paths", "download_kml"},
      gaps   |-> {0, staleThreshold, staleThreshold + 1},
      faults |-> NoFault,
      waits  |-> NoWait ]

\* The disk fills up or the log directory goes away while detections arrive
FeedFaults ==
    [ inputs |-> { [mac |-> "A", drone_lat |-> 1, drone_long |-> 1, faa_data |-> "F1"],
                   [mac |-> "A", drone_lat |-> 0, drone_long |-> 0, basic_id |-> "X"] },
      ops    |-> {"detections"},
      gaps   |-> NoGap,
      faults |-> Faults,
      waits  |-> NoWait ]

Feeds == {FeedMerge, FeedPaths, FeedFlights, FeedStamps, FeedReject, FeedAlias,
          FeedRegistry, FeedFaults,
          FeedFallback, FeedResolved, FeedRepeat}

----------------------------------------------------------------------------
(* Initial state: lines 33-129 and 373-374 *)

\* the devices a reader can be started for
Ports == {"p1", "p2"}

\* lines 51-60: no port is selected and no reader runs; every device is plugged
\* in and has emitted nothing
\* No registry request has been made
NoRequest == [stage |-> "idle", retry |-> <<>>, outcomes |-> <<>>, result |-> <<>>]

SerialInit ==
    /\ SELECTED_PORTS = EmptyDict
    /\ serial_connected_status = EmptyDict
    /\ last_mac_by_port = EmptyDict
    /\ serial_objs = EmptyDict
    /\ readers = <<>>
    /\ devices = [p \in Ports |-> [present |-> TRUE, sent |-> 0]]

Init ==
    /\ heap = EmptyDict
    /\ tracked_pairs = EmptyDict
    /\ detection_history = <<>>
    /\ FAA_CACHE = <<>>
    /\ faa_cache_file = <<>>
    /\ faa_log = <<>>
    /\ ALIASES = EmptyDict
    /\ aliases_file = EmptyDict
    /\ csv_file = [header |-> 1, rows |-> <<>>]
    /\ cum_csv_file = [header |-> 1, rows |-> <<>>]
    /\ kml_file = EmptyDict
    /\ cum_kml_file = EmptyDict
    /\ WEBHOOK_URL = ""
    /\ webhook_posts = <<>>
    /\ now = 1
    /\ resp = [op |-> "start", status |-> 0, body |-> EmptyDict]
    /\ feed \in Feeds
    /\ received = <<>>
    /\ io_failed = FALSE
    /\ SerialInit
    /\ kml_jobs = <<>>
    /\ upd_jobs = <<>>
    /\ faa_request = NoRequest

----------------------------------------------------------------------------
(* Operations *)

\* lines 3013-3017: POST /api/detections. An exception leaving update_detection
\* becomes Flask's 500 response
PostDetection(detection, t, fault) ==
    \E wait \in feed.waits : \E r \in {update_detection(detection, t, fault, wait)} :
    /\ r.accepted => Len(detection_history) < MaxHist
    /\ ApplyUpdate(r)
    /\ received' = IF r.accepted THEN Append(received, detection) ELSE received
    /\ now' = IF r.accepted THEN r.end ELSE now
    /\ resp' = [ op     |-> "post_detection",
                 status |-> IF r.raised THEN 500 ELSE 200,
                 body   |-> IF r.raised THEN [status |-> "error"] ELSE [status |-> "ok"] ]
    /\ UNCHANGED <<faa_log, ALIASES, aliases_file, WEBHOOK_URL, feed>>

\* lines 3009-3011: GET /api/detections
ApiDetections ==
    /\ "detections" \in feed.ops
    /\ resp' = [ op |-> "api_detections", status |-> 200,
                 body |-> [m \in DOMAIN tracked_pairs |-> heap[tracked_pairs[m]]] ]
    /\ UNCHANGED <<heap, tracked_pairs, detection_history, FAA_CACHE, faa_cache_file,
                   faa_log, ALIASES, aliases_file, csv_file, cum_csv_file, kml_file,
                   cum_kml_file, WEBHOOK_URL, webhook_posts, now, feed, received, io_failed>>

\* lines 3088-3114: GET /api/paths
ApiPaths ==
    /\ "paths" \in feed.ops
    /\ resp' = [ op |-> "api_paths", status |-> 200, body |-> api_paths(HistDicts) ]
    /\ UNCHANGED <<heap, tracked_pairs, detection_history, FAA_CACHE, faa_cache_file,
                   faa_log, ALIASES, aliases_file, csv_file, cum_csv_file, kml_file,
                   cum_kml_file, WEBHOOK_URL, webhook_posts, now, feed, received, io_failed>>

\* lines 3197-3201: GET /download/kml regenerates the session KML, then sends it
DownloadKml ==
    LET k == generate_kml(HistDicts, ALIASES) IN
    /\ "download_kml" \in feed.ops
    /\ kml_file' = IF k.raised THEN kml_file ELSE k.doc
    /\ resp' = [ op |-> "download_kml",
                 status |-> IF k.raised THEN 500 ELSE 200,
                 body |-> IF k.raised THEN EmptyDict ELSE k.doc ]
    /\ UNCHANGED <<heap, tracked_pairs, detection_history, FAA_CACHE, faa_cache_file,
                   faa_log, ALIASES, aliases_file, csv_file, cum_csv_file,
                   cum_kml_file, WEBHOOK_URL, webhook_posts, now, feed, received, io_failed>>

\* lines 3220-3227: GET /download/cumulative.kml sends the file as it is
DownloadCumulativeKml ==
    /\ "download_cumulative_kml" \in feed.ops
    /\ resp' = [ op |-> "download_cumulative_kml", status |-> 200, body |-> cum_kml_file ]
    /\ UNCHANGED <<heap, tracked_pairs, detection_history, FAA_CACHE, faa_cache_file,
                   faa_log, ALIASES, aliases_file, csv_file, cum_csv_file, kml_file,
                   cum_kml_file, WEBHOOK_URL, webhook_posts, now, feed, received, io_failed>>

Reactivate_replace(mac, t) ==
    /\ "reactivate" \in feed.ops
    /\ IF mac \in DOMAIN tracked_pairs
       THEN /\ heap' = [heap EXCEPT ![tracked_pairs[mac]] = [last_update |-> t]]
            /\ now' = t
            /\ resp' = [ op |-> "reactivate", status |-> 200,
                         body |-> [status |-> "reactivated", mac |-> mac] ]
       ELSE /\ UNCHANGED <<heap, now>>
            /\ resp' = [ op |-> "reactivate", status |-> 404,
                         body |-> [status |-> "error"] ]
    /\ UNCHANGED <<tracked_pairs, detection_history, FAA_CACHE, faa_cache_file,
                   faa_log, ALIASES, aliases_file, csv_file, cum_csv_file, kml_file,
                   cum_kml_file, WEBHOOK_URL, webhook_posts, feed, received, io_failed>>

\* lines 3043-3050: POST /api/reactivate/<mac>
Reactivate(mac, t) ==
    /\ "reactivate" \in feed.ops
    /\ IF mac \in DOMAIN tracked_pairs
       THEN /\ heap' = [heap EXCEPT ![tracked_pairs[mac]] = Put(@, "last_update", t)]
            /\ now' = t
            /\ resp' = [ op |-> "reactivate", status |-> 200,
                         body |-> [status |-> "reactivated", mac |-> mac] ]
       ELSE /\ UNCHANGED <<heap, now>>
            /\ resp' = [ op |-> "reactivate", status |-> 404,
                         body |-> [status |-> "error"] ]
    /\ UNCHANGED <<tracked_pairs, detection_history, FAA_CACHE, faa_cache_file,
                   faa_log, ALIASES, aliases_file, csv_file, cum_csv_file, kml_file,
                   cum_kml_file, WEBHOOK_URL, webhook_posts, feed, received, io_failed>>

save_aliases_lost(aliases, file, fault) == file

\* lines 117-123: save_aliases; a failed open() is printed and swallowed, the
\* file stays as it was
save_aliases(aliases, file, fault) ==
    IF Fails(fault, "aliases") THEN file ELSE aliases

\* lines 3056-3065: POST /api/set_alias
ApiSetAlias(mac, alias, fault) ==
    /\ "alias" \in feed.ops
    /\ IF mac # ""
       THEN /\ ALIASES' = Put(ALIASES, mac, alias)
            /\ aliases_file' = save_aliases(ALIASES', aliases_file, fault)
            /\ io_failed' = (io_failed \/ Fails(fault, "aliases"))
            /\ resp' = [ op |-> "api_set_alias", status |-> 200, body |-> [status |-> "ok"] ]
       ELSE /\ UNCHANGED <<ALIASES, aliases_file, io_failed>>
            /\ resp' = [ op |-> "api_set_alias", status |-> 400,
                         body |-> [status |-> "error"] ]
    /\ UNCHANGED <<heap, tracked_pairs, detection_history, FAA_CACHE, faa_cache_file,
                   faa_log, csv_file, cum_csv_file, kml_file, cum_kml_file,
                   WEBHOOK_URL, webhook_posts, now, feed, received>>

\* lines 3067-3073: POST /api/clear_alias/<mac>
ApiClearAlias(mac, fault) ==
    /\ "alias" \in feed.ops
    /\ IF mac \in DOMAIN ALIASES
       THEN /\ ALIASES' = [m \in (DOMAIN ALIASES) \ {mac} |-> ALIASES[m]]
            /\ aliases_file' = save_aliases(ALIASES', aliases_file, fault)
            /\ io_failed' = (io_failed \/ Fails(fault, "aliases"))
            /\ resp' = [ op |-> "api_clear_alias", status |-> 200,
                         body |-> [status |-> "ok"] ]
       ELSE /\ UNCHANGED <<ALIASES, aliases_file, io_failed>>
            /\ resp' = [ op |-> "api_clear_alias", status |-> 404,
                         body |-> [status |-> "error"] ]
    /\ UNCHANGED <<heap, tracked_pairs, detection_history, FAA_CACHE, faa_cache_file,
                   faa_log, csv_file, cum_csv_file, kml_file, cum_kml_file,
                   WEBHOOK_URL, webhook_posts, now, feed, received>>

\* lines 35-37: set_server_webhook_url
SetServerWebhookUrl(url) ==
    /\ "webhook" \in feed.ops
    /\ WEBHOOK_URL' = url
    /\ resp' = [ op |-> "set_server_webhook_url", status |-> 0, body |-> EmptyDict ]
    /\ UNCHANGED <<heap, tracked_pairs, detection_history, FAA_CACHE, faa_cache_file,
                   faa_log, ALIASES, aliases_file, csv_file, cum_csv_file, kml_file,
                   cum_kml_file, webhook_posts, now, feed, received, io_failed>>

\* What the registry answers to query_remote_id: None (HTTP error, exception),
\* a response with no items, a response with items
RegistryAnswers == { None, Some("NOITEMS"), Some("F2") }

\* line 624: `faa_result.get("data", {}).get("items")`
HasItems(payload) == payload \notin {EmptyPayload, "NOITEMS"}

\* lines 613-650: POST /api/query_faa; answer is what query_remote_id returned
ApiQueryFaa(mac, remote_id, answer) ==
    /\ "query_faa" \in feed.ops
    /\ Len(faa_log) < MaxResolve
    /\ IF mac = "" \/ remote_id = ""
       THEN /\ resp' = [ op |-> "api_query_faa", status |-> 400,
                         body |-> [status |-> "error"] ]
            /\ UNCHANGED <<heap, tracked_pairs, FAA_CACHE, faa_cache_file, faa_log,
                           kml_file>>
       ELSE
         LET fallback   == answer = None \/ answer[1] = EmptyPayload \/ ~HasItems(answer[1])
             faa_result == IF fallback /\ CacheHasMac(FAA_CACHE, mac)
                           THEN Some(CacheFirstForMac(FAA_CACHE, mac))
                           ELSE answer
         IN
         IF faa_result = None
         THEN /\ resp' = [ op |-> "api_query_faa", status |-> 500,
                           body |-> [status |-> "error"] ]
              /\ UNCHANGED <<heap, tracked_pairs, FAA_CACHE, faa_cache_file, faa_log,
                             kml_file>>
         ELSE
           LET id   == IF mac \in DOMAIN tracked_pairs THEN tracked_pairs[mac]
                       ELSE 0 - (CHOOSE i \in 1..2 : <<"A", "B">>[i] = mac)
               obj  == IF mac \in DOMAIN tracked_pairs
                       THEN Put(heap[id], "faa_data", faa_result[1])
                       ELSE [basic_id |-> remote_id, faa_data |-> faa_result[1]]
               c1   == write_to_faa_cache([cache |-> FAA_CACHE, file |-> faa_cache_file,
                                           raised |-> FALSE],
                                          mac, remote_id, faa_result[1], "none")
               heap1 == Put(heap, id, obj)
               k    == generate_kml(DictsOf(heap1, detection_history), ALIASES)
           IN  /\ heap' = heap1
               /\ tracked_pairs' = Put(tracked_pairs, mac, id)
               /\ FAA_CACHE' = c1.cache
               /\ faa_cache_file' = c1.file
               /\ faa_log' = Append(faa_log, [timestamp |-> now, mac |-> mac,
                                              remote_id |-> remote_id,
                                              faa_response |-> faa_result[1]])
               /\ kml_file' = IF k.raised THEN kml_file ELSE k.doc
               /\ resp' = IF k.raised
                          THEN [ op |-> "api_query_faa", status |-> 500,
                                 body |-> [status |-> "error"] ]
                          ELSE [ op |-> "api_query_faa", status |-> 200,
                                 body |-> [status |-> "ok", faa_data |-> faa_result[1]] ]
    /\ UNCHANGED <<detection_history, ALIASES, aliases_file, csv_file, cum_csv_file,
                   cum_kml_file, WEBHOOK_URL, webhook_posts, now, feed, received, io_failed>>

\* lines 661-662: `identifier in tracked_pairs and 'faa_data' in tracked_pairs[identifier]`
LiveByMac(identifier) ==
    IF identifier \in DOMAIN tracked_pairs /\ Has(heap[tracked_pairs[identifier]], "faa_data")
    THEN { heap[tracked_pairs[identifier]]["faa_data"] }
    ELSE {}

\* lines 664-666: the first tracked entry whose basic_id is the identifier and
\* that has faa_data; tracked_pairs is iterated in insertion order, which the
\* entries here do not record: any such entry may be the first
LiveByRemoteId(identifier) ==
    { heap[tracked_pairs[m]]["faa_data"] :
        m \in { k \in DOMAIN tracked_pairs :
                  /\ Has(heap[tracked_pairs[k]], "basic_id")
                  /\ heap[tracked_pairs[k]]["basic_id"] = identifier
                  /\ Has(heap[tracked_pairs[k]], "faa_data") } }

\* lines 668-670: the first cache entry whose key's remote id is the identifier
CacheByRemoteId(identifier) ==
    { FAA_CACHE[i].val :
        i \in { k \in 1..Len(FAA_CACHE) :
                  /\ FAA_CACHE[k].key[2] = identifier
                  /\ \A j \in 1..(k - 1) : FAA_CACHE[j].key[2] # identifier } }

\* lines 671-673: the first cache entry whose key's mac is the identifier
CacheByMac(identifier) ==
    IF CacheHasMac(FAA_CACHE, identifier)
    THEN { CacheFirstForMac(FAA_CACHE, identifier) }
    ELSE {}

api_get_faa_cache_first(identifier) ==
    LET found == IF CacheByMac(identifier) # {} THEN CacheByMac(identifier)
                 ELSE IF CacheByRemoteId(identifier) # {} THEN CacheByRemoteId(identifier)
                 ELSE IF LiveByRemoteId(identifier) # {} THEN LiveByRemoteId(identifier)
                 ELSE LiveByMac(identifier)
    IN  IF found = {}
        THEN { [ op |-> "api_get_faa", status |-> 404, body |-> [status |-> "error"] ] }
        ELSE { [ op |-> "api_get_faa", status |-> 200,
                 body |-> [status |-> "ok", faa_data |-> f] ] : f \in found }

\* lines 656-675: the responses GET /api/faa/<identifier> can give
api_get_faa(identifier) ==
    LET found == IF LiveByMac(identifier) # {} THEN LiveByMac(identifier)
                 ELSE IF LiveByRemoteId(identifier) # {} THEN LiveByRemoteId(identifier)
                 ELSE IF CacheByRemoteId(identifier) # {} THEN CacheByRemoteId(identifier)
                 ELSE CacheByMac(identifier)
    IN  IF found = {}
        THEN { [ op |-> "api_get_faa", status |-> 404, body |-> [status |-> "error"] ] }
        ELSE { [ op |-> "api_get_faa", status |-> 200,
                 body |-> [status |-> "ok", faa_data |-> f] ] : f \in found }

\* lines 656-675: GET /api/faa/<identifier>
ApiGetFaa(identifier) ==
    /\ "get_faa" \in feed.ops
    /\ resp' \in api_get_faa(identifier)
    /\ UNCHANGED <<heap, tracked_pairs, detection_history, FAA_CACHE, faa_cache_file,
                   faa_log, ALIASES, aliases_file, csv_file, cum_csv_file, kml_file,
                   cum_kml_file, WEBHOOK_URL, webhook_posts, now, feed, received, io_failed>>

\* The identifiers asked for: macs and remote ids
Identifiers == Macs \cup {"X", "Y"}

----------------------------------------------------------------------------
(* The program *)

\* The HTTP handlers, each run from its start to its end with no other thread
\* in between; no serial reader runs
Next ==
    \/ /\ \E detection \in feed.inputs : \E t \in ClockReadings : \E fault \in feed.faults :
              PostDetection(detection, t, fault)
       /\ UNCHANGED <<serialVars, kml_jobs, upd_jobs, faa_request>>
    \/ ApiDetections /\ UNCHANGED <<serialVars, kml_jobs, upd_jobs, faa_request>>
    \/ ApiPaths /\ UNCHANGED <<serialVars, kml_jobs, upd_jobs, faa_request>>
    \/ DownloadKml /\ UNCHANGED <<serialVars, kml_jobs, upd_jobs, faa_request>>
    \/ DownloadCumulativeKml /\ UNCHANGED <<serialVars, kml_jobs, upd_jobs, faa_request>>
    \/ /\ \E mac \in Macs : \E t \in ClockReadings : Reactivate(mac, t)
       /\ UNCHANGED <<serialVars, kml_jobs, upd_jobs, faa_request>>
    \/ /\ \E mac \in {"A", ""} : \E fault \in AliasFaults : ApiSetAlias(mac, "a1", fault)
       /\ UNCHANGED <<serialVars, kml_jobs, upd_jobs, faa_request>>
    \/ /\ \E mac \in Macs : \E fault \in AliasFaults : ApiClearAlias(mac, fault)
       /\ UNCHANGED <<serialVars, kml_jobs, upd_jobs, faa_request>>
    \/ /\ \E url \in {"", "http://hook"} : SetServerWebhookUrl(url)
       /\ UNCHANGED <<serialVars, kml_jobs, upd_jobs, faa_request>>
    \/ /\ \E mac \in {"A", ""} : \E remote_id \in {"X", "Y"} : \E answer \in RegistryAnswers :
              ApiQueryFaa(mac, remote_id, answer)
       /\ UNCHANGED <<serialVars, kml_jobs, upd_jobs, faa_request>>
    \/ /\ \E identifier \in Identifiers : ApiGetFaa(identifier)
       /\ UNCHANGED <<serialVars, kml_jobs, upd_jobs, faa_request>>

Spec == Init /\ [][Next]_vars

----------------------------------------------------------------------------
(* Flight segmentation on its own: generate_kml and generate_cumulative_kml  *)
(* applied to histories whose timestamps are any clock readings              *)

\* Values of time.time(), the epoch itself included, with gaps below, at and
\* above staleThreshold
SegTimes == {0, 30, 90, 150, 200}

\* A history to segment: <<time of the update, "fix" or "nofix">>, in time order
SegHistories ==
    { h \in UNION { [1..n -> SegTimes \X {"fix", "nofix"}] : n \in 0..MaxPts } :
        \A i \in 1..(Len(h) - 1) : h[i][1] <= h[i + 1][1] }

\* The i-th record of such a history as update_detection receives it
SegRecord(i, p) ==
    IF p[2] = "fix" THEN [mac |-> "A", drone_lat |-> i, drone_long |-> 1]
    ELSE [mac |-> "A", drone_lat |-> 0, drone_long |-> 0]

\* ... and as update_detection stores it (lines 391-394, 450-456)
SegDict(i, p) ==
    IF p[2] = "fix" THEN Stamp(SegRecord(i, p), p[1]) ELSE SegRecord(i, p)

\* ... and the row update_detection logs for it
SegRow(i, p) ==
    IF p[2] = "fix" THEN CsvRow(SegDict(i, p), p[1]) ELSE NoFixCsvRow(SegDict(i, p), p[1])

FeedSeg ==
    [ inputs |-> {}, ops |-> {"download_kml"}, gaps |-> NoGap, faults |-> NoFault,
      waits |-> NoWait ]

\* The store and the logs after the updates of h, before any export is written
InitSeg ==
    \E h \in SegHistories :
      LET n == Len(h) IN
      /\ ALIASES = EmptyDict
      /\ aliases_file = EmptyDict
      /\ detection_history = [i \in 1..n |-> 2 * i]
      /\ tracked_pairs = IF n = 0 THEN EmptyDict ELSE [m \in {"A"} |-> 2 * n - 1]
      /\ heap = [id \in { 2 * i : i \in 1..n } \cup (IF n = 0 THEN {} ELSE {2 * n - 1}) |->
                   IF id = 2 * n - 1 THEN SegDict(n, h[n])
                   ELSE SegDict(id \div 2, h[id \div 2])]
      /\ csv_file = [header |-> 1, rows |-> [i \in 1..n |-> SegRow(i, h[i])]]
      /\ cum_csv_file = [header |-> 1, rows |-> [i \in 1..n |-> SegRow(i, h[i])]]
      /\ received = [i \in 1..n |-> SegRecord(i, h[i])]
      /\ now = IF n = 0 \/ h[n][1] < 1 THEN 1 ELSE h[n][1]
      /\ FAA_CACHE = <<>>
      /\ faa_cache_file = <<>>
      /\ faa_log = <<>>
      /\ kml_file = EmptyDict
      /\ cum_kml_file = EmptyDict
      /\ WEBHOOK_URL = ""
      /\ webhook_posts = <<>>
      /\ resp = [op |-> "start", status |-> 0, body |-> EmptyDict]
      /\ feed = FeedSeg
      /\ io_failed = FALSE
      /\ SerialInit
      /\ kml_jobs = <<>>
      /\ upd_jobs = <<>>
      /\ faa_request = NoRequest

\* lines 261-369, called at line 374 and by update_detection: the cumulative KML
\* is rebuilt from the cumulative CSV
GenerateCumulativeKml ==
    /\ cum_kml_file' = generate_cumulative_kml(cum_csv_file.rows, ALIASES)
    /\ resp' = [ op |-> "generate_cumulative_kml", status |-> 0, body |-> EmptyDict ]
    /\ UNCHANGED <<heap, tracked_pairs, detection_history, FAA_CACHE, faa_cache_file,
                   faa_log, ALIASES, aliases_file, csv_file, cum_csv_file, kml_file,
                   WEBHOOK_URL, webhook_posts, now, feed, received, io_failed>>

NextSeg ==
    \/ DownloadKml /\ UNCHANGED <<serialVars, kml_jobs, upd_jobs, faa_request>>
    \/ GenerateCumulativeKml /\ UNCHANGED <<serialVars, kml_jobs, upd_jobs, faa_request>>

SpecSeg == InitSeg /\ [][NextSeg]_vars

----------------------------------------------------------------------------
(* Properties of the detection store *)

\* The dict tracked_pairs holds for mac
Live(mac) == heap[tracked_pairs[mac]]

\* C1: once the live entry of a mac holds a non-empty basic_id, an update for
\* that mac that lacks basic_id (with or without a fix) leaves that basic_id in
\* the live entry
C1_RemoteIdKept ==
    [][\A detection \in feed.inputs : \A t \in ClockReadings :
          ( /\ TruthyStr(detection, "mac")
            /\ ~TruthyStr(detection, "basic_id")
            /\ detection["mac"] \in DOMAIN tracked_pairs
            /\ TruthyStr(Live(detection["mac"]), "basic_id")
            /\ PostDetection(detection, t, "none") )
          => Get(Live(detection["mac"])', "basic_id", "")
               = Live(detection["mac"])["basic_id"]]_vars

\* C2: once the live entry of a mac holds faa_data, an update for that mac whose
\* record has no faa_data key leaves the live entry with faa_data
C2_RegistryDataKept ==
    [][\A detection \in feed.inputs : \A t \in ClockReadings :
          ( /\ TruthyStr(detection, "mac")
            /\ ~Has(detection, "faa_data")
            /\ detection["mac"] \in DOMAIN tracked_pairs
            /\ Has(Live(detection["mac"]), "faa_data")
            /\ PostDetection(detection, t, "none") )
          => Has(Live(detection["mac"])', "faa_data")]_vars


\* C3: detection_history only grows, and the entries it holds never change:
\* every step leaves the dicts already in the history as they were, in place
C3_HistoryAppendOnly ==
    [][ /\ Len(detection_history') >= Len(detection_history)
        /\ SubSeq(HistDicts', 1, Len(detection_history)) = HistDicts ]_vars

\* A mac was reactivated after its last update: the live entry and the last
\* history entry of that mac have parted
C3_Witness ==
    /\ resp.op = "reactivate" /\ resp.status = 200
    /\ detection_history # <<>>
    /\ Last(HistDicts)["mac"] = resp.body.mac
    /\ Live(resp.body.mac) # Last(HistDicts)

\* The (lon, lat) pairs of all the flights of one mac in a KML document
FlightPoints(doc, mac) ==
    IF mac \notin DOMAIN doc THEN {}
    ELSE UNION { { <<f, k>> : k \in 1..Len(doc[mac][f].coords) } : f \in 1..Len(doc[mac]) }

\* The history entries of mac that are not no-fix records
FixCount(mac) ==
    Cardinality({ i \in 1..Len(HistDicts) :
                    /\ HistDicts[i]["mac"] = mac
                    /\ ~(Get(HistDicts[i], "drone_lat", 0) = 0
                         /\ Get(HistDicts[i], "drone_long", 0) = 0) })

\* No drone polyline and no flight holds a (0, 0) point, and the points of a mac
\* are no more than its records that are not no-fix records
NoFixNeverPlotted ==
    \A paths \in {api_paths(HistDicts).dronePaths} :
    \A mac \in Macs : \A fixes \in {FixCount(mac)} :
      /\ mac \in DOMAIN paths =>
            /\ \A i \in 1..Len(paths[mac]) : paths[mac][i] # <<0, 0>>
            /\ Len(paths[mac]) <= fixes
      /\ \A doc \in {kml_file, cum_kml_file} :
           mac \in DOMAIN doc =>
             /\ \A f \in 1..Len(doc[mac]) : \A k \in 1..Len(doc[mac][f].coords) :
                  LET c == doc[mac][f].coords[k] IN ~(c[1] = 0 /\ c[2] = 0)
             /\ Cardinality(FlightPoints(doc, mac)) <= fixes

\* C4: an accepted record with drone_lat = 0 and drone_long = 0 becomes the live
\* entry of its mac and is appended to the history, and no such record ever
\* contributes a point to the drone polyline of /api/paths or to a flight of the
\* session or the cumulative KML
C4_NoFixStoredNotPlotted ==
    [][ /\ received' # received =>
             LET detection == Last(received') IN
             (Get(detection, "drone_lat", 0) = 0 /\ Get(detection, "drone_long", 0) = 0)
             => /\ heap'[tracked_pairs'[detection["mac"]]] = detection
                /\ Len(detection_history') = Len(detection_history) + 1
                /\ Last(HistDicts') = detection
        /\ \/ UNCHANGED <<heap, detection_history, cum_csv_file, kml_file, cum_kml_file>>
           \/ NoFixNeverPlotted' ]_vars

\* A no-fix record is the live entry and the last history entry while the same
\* mac has a plotted fix, and the paths have just been served
C4_Witness ==
    /\ resp.op = "api_paths"
    /\ "A" \in DOMAIN resp.body.dronePaths
    /\ "A" \in DOMAIN kml_file /\ "A" \in DOMAIN cum_kml_file
    /\ Get(Live("A"), "drone_lat", 0) = 0 /\ Get(Live("A"), "drone_long", 0) = 0
    /\ Last(HistDicts) = Live("A")
    /\ Len(resp.body.dronePaths["A"]) < Len(HistDicts)

\* C5: an update whose mac is absent or empty changes nothing (live entries,
\* history, cache, CSV logs, KML files, webhook posts), and POST /api/detections
\* answers it with 200 and status ok
C5_NoMacNoOp ==
    [][\A detection \in feed.inputs : \A t \in ClockReadings : \A fault \in feed.faults :
          ( ~TruthyStr(detection, "mac") /\ PostDetection(detection, t, fault) )
          => /\ UNCHANGED <<heap, tracked_pairs, detection_history, FAA_CACHE,
                            faa_cache_file, faa_log, ALIASES, aliases_file, csv_file,
                            cum_csv_file, kml_file, cum_kml_file, webhook_posts>>
             /\ resp'.status = 200
             /\ resp'.body = [status |-> "ok"] ]_vars

\* A record without mac was posted to a server with a webhook configured that
\* has accepted no record yet
C5_Witness ==
    /\ resp.op = "post_detection" /\ resp.status = 200
    /\ WEBHOOK_URL # ""
    /\ received = <<>>


----------------------------------------------------------------------------
(* Properties of the flight segmentation *)

\* The valid-position points of mac, in order, with their timestamps: those of
\* the session history and those of the cumulative CSV
SessionPoints(mac) ==
    LET sel == SelectSeq(HistDicts, LAMBDA d :
                   /\ d["mac"] = mac
                   /\ Get(d, "drone_lat", 0) # 0 /\ Get(d, "drone_long", 0) # 0)
    IN  [i \in 1..Len(sel) |-> [lat |-> sel[i]["drone_lat"], lon |-> sel[i]["drone_long"],
                                ts |-> sel[i]["last_update"]]]

CumulativePoints(mac) ==
    LET sel == SelectSeq(cum_csv_file.rows, LAMBDA r :
                   r.mac = mac /\ r.drone_lat \notin {<<>>, <<0>>}
                               /\ r.drone_long \notin {<<>>, <<0>>})
    IN  [i \in 1..Len(sel) |-> [lat |-> sel[i].drone_lat[1], lon |-> sel[i].drone_long[1],
                                ts |-> sel[i].timestamp]]

\* The number of points in the folders before folder f
PointsBefore(folders, f) ==
    Cardinality(UNION { { <<g, k>> : k \in 1..Len(folders[g].coords) } : g \in 1..(f - 1) })

\* The flight the k-th point of a mac lies in, the folders read in document order
FlightOf(folders, k) ==
    CHOOSE f \in 1..Len(folders) :
        /\ PointsBefore(folders, f) < k
        /\ k <= PointsBefore(folders, f) + Len(folders[f].coords)

\* The folders of doc hold the points pts, and the points up to threshold apart
\* share a flight
GapsWithinJoin(doc, mac, pts) ==
    pts # <<>> =>
      /\ mac \in DOMAIN doc
      /\ Cardinality(FlightPoints(doc, mac)) = Len(pts)
      /\ \A k \in 1..(Len(pts) - 1) :
           pts[k + 1].ts - pts[k].ts <= staleThreshold
             => FlightOf(doc[mac], k) = FlightOf(doc[mac], k + 1)

\* C6: in the session KML and in the cumulative KML two consecutive
\* valid-position points of a mac whose timestamps are at most staleThreshold
\* apart lie in the same flight, a gap of exactly staleThreshold included
C6_GapWithinThresholdSameFlight ==
    \A mac \in Macs :
      /\ resp.op = "download_kml" => GapsWithinJoin(kml_file, mac, SessionPoints(mac))
      /\ cum_kml_file # EmptyDict
           => GapsWithinJoin(cum_kml_file, mac, CumulativePoints(mac))

\* Both exports are written for a history whose fixes are exactly staleThreshold
\* apart and share one flight
C6_Witness ==
    /\ resp.op = "download_kml" /\ cum_kml_file # EmptyDict
    /\ Len(SessionPoints("A")) = 3
    /\ SessionPoints("A")[2].ts - SessionPoints("A")[1].ts = staleThreshold
    /\ SessionPoints("A")[3].ts - SessionPoints("A")[2].ts = staleThreshold
    /\ Len(kml_file["A"]) = 1 /\ Len(cum_kml_file["A"]) = 1

\* The points more than threshold apart lie in consecutive flights, and the
\* folders are numbered in order
GapsBeyondSplit(doc, mac, pts) ==
    pts # <<>> =>
      /\ mac \in DOMAIN doc
      /\ Cardinality(FlightPoints(doc, mac)) = Len(pts)
      /\ \A f \in 1..Len(doc[mac]) : doc[mac][f].idx = f
      /\ \A k \in 1..(Len(pts) - 1) :
           pts[k + 1].ts - pts[k].ts > staleThreshold
             => FlightOf(doc[mac], k + 1) = FlightOf(doc[mac], k) + 1

C8_CarriedStampsTwoFolders ==
    received = StampedTrack
      => "A" \in DOMAIN kml_file /\ Len(kml_file["A"]) = 2

\* C8 amended: once those three records have been posted in that order, each
\* stored record carries the time of its ingestion as last_update, and the
\* session KML holds one flight folder plus one for every pair of consecutive
\* records ingested more than staleThreshold apart
C8_IngestionTimesSegment ==
    received = StampedTrack
      => /\ \A i \in 1..3 : HistDicts[i]["last_update"] = csv_file.rows[i].timestamp
         /\ "A" \in DOMAIN kml_file
         /\ Len(kml_file["A"])
              = 1 + Cardinality({ i \in 1..2 :
                        csv_file.rows[i + 1].timestamp - csv_file.rows[i].timestamp
                          > staleThreshold })

\* The three records were posted back to back and lie in one flight
C8_Witness ==
    /\ received = StampedTrack
    /\ csv_file.rows[3].timestamp = csv_file.rows[1].timestamp
    /\ Len(kml_file["A"]) = 1

----------------------------------------------------------------------------
(* Properties of /api/paths and of the CSV logs *)

\* The elements of s at the indices I, in increasing order of index
SubseqAt(s, I) ==
    [j \in 1..Cardinality(I) |-> s[CHOOSE i \in I : Cardinality({ x \in I : x <= i }) = j]]

\* s with every run of equal adjacent elements collapsed to its first element
Collapse(s) == SubseqAt(s, { i \in 1..Len(s) : i = 1 \/ s[i] # s[i - 1] })

\* The positions of mac in the history under the keys klat, klong, both non-zero,
\* in append order
ValidPositions(mac, klat, klong) ==
    LET at == SubseqAt(HistDicts, { i \in 1..Len(HistDicts) :
                                      /\ HistDicts[i]["mac"] = mac
                                      /\ Get(HistDicts[i], klat, 0) # 0
                                      /\ Get(HistDicts[i], klong, 0) # 0 })
    IN  [j \in 1..Len(at) |-> <<at[j][klat], at[j][klong]>>]

\* paths is the collapsed valid positions of every mac
PathsAsCollapsed(paths, klat, klong) ==
    \A mac \in Macs :
      LET expect == Collapse(ValidPositions(mac, klat, klong)) IN
      /\ expect # <<>> => mac \in DOMAIN paths
      /\ mac \in DOMAIN paths =>
           /\ paths[mac] = expect
           /\ \A i \in 1..(Len(paths[mac]) - 1) : paths[mac][i] # paths[mac][i + 1]

\* C9: the drone and pilot polylines GET /api/paths returns are, for every mac,
\* the valid positions of that mac in the history, in append order, with equal
\* adjacent points collapsed; no two adjacent points of a polyline are equal, and
\* two records with distinct valid positions give a polyline of two points
C9_PathsCollapsed ==
    resp.op = "api_paths" =>
      /\ PathsAsCollapsed(resp.body.dronePaths, "drone_lat", "drone_long")
      /\ PathsAsCollapsed(resp.body.pilotPaths, "pilot_lat", "pilot_long")
      /\ \A mac \in Macs :
           ( /\ Len(received) = 2
             /\ \A i \in 1..2 : received[i]["mac"] = mac /\ valid_drone(received[i])
             /\ <<received[1]["drone_lat"], received[1]["drone_long"]>>
                  # <<received[2]["drone_lat"], received[2]["drone_long"]>> )
           => Len(resp.body.dronePaths[mac]) = 2

\* The paths were served for a history in which a mac repeats a position and
\* then moves: three valid positions, two points
C9_Witness ==
    /\ resp.op = "api_paths"
    /\ Len(ValidPositions("A", "drone_lat", "drone_long")) = 3
    /\ "A" \in DOMAIN resp.body.dronePaths
    /\ Len(resp.body.dronePaths["A"]) = 2
    /\ "A" \in DOMAIN resp.body.pilotPaths

\* C10: the session CSV keeps its single header, and as long as no open() of a
\* log has failed the session CSV and the cumulative CSV hold one row per
\* accepted update (as many as the history has entries), in order, and none for
\* a rejected record
C10_OneRowPerUpdate ==
    /\ csv_file.header = 1
    /\ ~io_failed =>
         /\ Len(received) = Len(detection_history)
         /\ \A file \in {csv_file, cum_csv_file} :
              /\ Len(file.rows) = Len(detection_history)
              /\ \A i \in 1..Len(file.rows) : file.rows[i].mac = received[i]["mac"]

\* A record with a fix and a no-fix record have been logged by a server that is
\* also sent records without mac
C10_Witness ==
    /\ ~io_failed
    /\ Len(csv_file.rows) = 2 /\ Len(cum_csv_file.rows) = 2
    /\ csv_file.rows[1].drone_lat # <<0>> /\ csv_file.rows[2].drone_lat = <<0>>
    /\ feed = FeedReject /\ WEBHOOK_URL # ""


----------------------------------------------------------------------------
(* Properties of the side effects of an update *)

\* C11: when the append to the session CSV fails during an accepted update (and
\* no other file is unwritable), the rest of that update still runs: the
\* cumulative CSV gains its row, both KML files are regenerated, and the
\* webhook is posted when a URL is configured
C11_SideEffectsIsolated ==
    [][ ( /\ "csv" \in feed.faults
          /\ resp'.op = "post_detection"
          /\ received' # received
          /\ \E t \in ClockReadings : PostDetection(Last(received'), t, "csv") )
        => /\ Len(cum_csv_file'.rows) = Len(cum_csv_file.rows) + 1
           /\ cum_kml_file' = generate_cumulative_kml(cum_csv_file'.rows, ALIASES')
           /\ kml_file' = generate_kml(HistDicts', ALIASES').doc
           /\ WEBHOOK_URL # "" => Len(webhook_posts') = Len(webhook_posts) + 1 ]_vars

\* C12: for every record with a mac, whichever file writes of the update fail
\* (all of them included), after the update the live entry of the mac is the new
\* record and the history has gained exactly one entry, a copy of it
C12_MemoryUpdateSurvivesFaults ==
    [][ resp'.op = "post_detection" =>
          \A detection \in feed.inputs : \A t \in ClockReadings : \A fault \in feed.faults :
            ( TruthyStr(detection, "mac") /\ PostDetection(detection, t, fault) )
            => /\ detection["mac"] \in DOMAIN tracked_pairs'
               /\ \A k \in {"mac", "drone_lat", "drone_long"} \cap DOMAIN detection :
                    heap'[tracked_pairs'[detection["mac"]]][k] = detection[k]
               /\ Len(detection_history') = Len(detection_history) + 1
               /\ SubSeq(HistDicts', 1, Len(detection_history)) = HistDicts
               /\ Last(HistDicts') = heap'[tracked_pairs'[detection["mac"]]]
               /\ Last(detection_history') # tracked_pairs'[detection["mac"]] ]_vars

\* Every file was unwritable while a record with registry data was merged: no
\* log and no export has anything, the cache file neither, and the record is in
\* the live entries, in the history and in the cache
C12_Witness ==
    /\ io_failed /\ resp.op = "post_detection" /\ resp.status = 500
    /\ csv_file.rows = <<>> /\ cum_csv_file.rows = <<>>
    /\ kml_file = EmptyDict /\ cum_kml_file = EmptyDict
    /\ faa_cache_file = <<>> /\ FAA_CACHE # <<>>
    /\ Len(detection_history) = 2
    /\ Live("A") = Last(HistDicts)

\* C13: a write failure during an accepted update is not surfaced to the client
\* that posted the record: POST /api/detections answers 200 with status ok
C13_FaultNotSurfaced ==
    [][ ( /\ resp'.op = "post_detection"
          /\ received' # received
          /\ ~io_failed /\ io_failed' )
        => resp'.status = 200 /\ resp'.body = [status |-> "ok"] ]_vars

\* C14: while a webhook URL is configured, every accepted update, with a fix or
\* without, hands exactly one post with the stored detection to the webhook
C14_WebhookEveryUpdate ==
    [][ ( received' # received /\ WEBHOOK_URL # "" )
        => webhook_posts' = Append(webhook_posts, Last(HistDicts')) ]_vars

\* C15: an update does not wait for its webhook post: it writes its CSV row and
\* returns at the clock reading it started with, however long the post takes
C15_WebhookNeverDelays ==
    [][ ( resp'.op = "post_detection" /\ received' # received ) =>
          \A t \in ClockReadings : \A fault \in feed.faults :
            PostDetection(Last(received'), t, fault)
            => /\ now' = t
               /\ csv_file'.rows # csv_file.rows => Last(csv_file'.rows).timestamp = t ]_vars


----------------------------------------------------------------------------
(* The serial readers: select_ports_post (lines 2938-2961) starts one        *)
(* serial_reader thread (lines 3119-3186) per selected slot, every time the  *)
(* form is posted. A reader is a record [port, ser, detection]: ser is the   *)
(* thread's local handle ("none" for None, "open", or "stale" once the       *)
(* device behind an open handle has gone), detection is the parsed frame the *)
(* thread holds between readline and update_detection.                       *)

\* readers started per run
MaxThreads == 2

\* the variables of the detection store, the files and the HTTP side
storeVars == <<heap, tracked_pairs, detection_history, FAA_CACHE, faa_cache_file,
               faa_log, ALIASES, aliases_file, csv_file, cum_csv_file, kml_file,
               cum_kml_file, WEBHOOK_URL, webhook_posts, now, resp, feed, received,
               io_failed>>

\* lines 3173, 3185: serial_objs.pop(port, None)
pop_keep(d, k) == d

pop(d, k) == [x \in (DOMAIN d) \ {k} |-> d[x]]

\* lines 3171, 3183: ser = None, and the loop starts over
Closed_exit(reader) == [port |-> reader.port, ser |-> "exited", detection |-> None]

Closed(reader) == [port |-> reader.port, ser |-> "none", detection |-> None]

\* lines 3136-3147: a line off the wire, decoded. json.loads rejects the text
\* (a blank line is skipped before), or returns a dict, or returns a value that
\* is not a dict: a number, a string, a list
parse_line(frame) ==
    IF frame.kind = "json" THEN [decoded |-> TRUE, dict |-> TRUE, value |-> frame.obj]
    ELSE IF frame.kind = "value" THEN [decoded |-> TRUE, dict |-> FALSE, value |-> frame.val]
    ELSE [decoded |-> FALSE, dict |-> FALSE, value |-> 0]

\* lines 3149-3156: the mac a frame lacks is the last one seen on the port, and
\* remote_id stands in for a missing basic_id
ReaderDetection_anyport(obj, port, last_mac) ==
    LET d1 == IF Has(obj, "mac") THEN obj
              ELSE IF DOMAIN last_mac # {}
              THEN Put(obj, "mac", last_mac[CHOOSE q \in DOMAIN last_mac : TRUE])
              ELSE obj
    IN  IF Has(d1, "remote_id") /\ ~Has(d1, "basic_id")
        THEN Put(d1, "basic_id", d1["remote_id"])
        ELSE d1

ReaderDetection(obj, port, last_mac) ==
    LET d1 == IF Has(obj, "mac") THEN obj
              ELSE IF port \in DOMAIN last_mac THEN Put(obj, "mac", last_mac[port])
              ELSE obj
    IN  IF Has(d1, "remote_id") /\ ~Has(d1, "basic_id")
        THEN Put(d1, "basic_id", d1["remote_id"])
        ELSE d1

\* frames read from a device and not yet handed to update_detection
Pending == Cardinality({ i \in DOMAIN readers : readers[i].detection # None })

\* line 3125: serial.Serial(port, BAUD_RATE, timeout=1) succeeds when the device
\* is there and, where the platform opens ports exclusively, nobody holds it
CanOpen(i) ==
    LET p == readers[i].port IN
    /\ devices[p].present
    /\ feed.exclusive =>
         ~\E j \in DOMAIN readers : readers[j].port = p /\ readers[j].ser = "open"

\* lines 3163-3186: both except handlers of the read loop
Disconnect(i) ==
    /\ serial_connected_status' = Put(serial_connected_status, readers[i].port, FALSE)
    /\ readers' = [readers EXCEPT ![i] = Closed(readers[i])]
    /\ serial_objs' = pop(serial_objs, readers[i].port)

\* lines 2938-2961: POST /select_ports. The slots of the form that are filled
\* are stored, and a reader is started for every stored slot, the ones that
\* already have a reader included. The WATCHDOG_RESET written to the open
\* handles changes nothing here (a failed write is logged and dropped)
SelectPortsPost(form) ==
    LET filled   == { k \in DOMAIN form : form[k] # "" }
        selected == [k \in (DOMAIN SELECTED_PORTS) \cup filled |->
                       IF k \in filled THEN form[k] ELSE SELECTED_PORTS[k]]
        slots    == SelectSeq(<<"port1", "port2", "port3">>,
                              LAMBDA k : k \in DOMAIN selected)
    IN  /\ Len(readers) + Len(slots) <= MaxThreads
        /\ SELECTED_PORTS' = selected
        /\ serial_connected_status' =
             [p \in (DOMAIN serial_connected_status) \cup { selected[k] : k \in DOMAIN selected } |->
                IF \E k \in DOMAIN selected : selected[k] = p THEN FALSE
                ELSE serial_connected_status[p]]
        /\ readers' = readers \o [n \in 1..Len(slots) |->
                                    [port |-> selected[slots[n]], ser |-> "none",
                                     detection |-> None]]
        /\ resp' = [op |-> "select_ports", status |-> 302, body |-> EmptyDict]
        /\ UNCHANGED <<heap, tracked_pairs, detection_history, FAA_CACHE, faa_cache_file,
                       faa_log, ALIASES, aliases_file, csv_file, cum_csv_file, kml_file,
                       cum_kml_file, WEBHOOK_URL, webhook_posts, now, feed, received,
                       io_failed, last_mac_by_port, serial_objs, devices, kml_jobs, upd_jobs, faa_request>>

\* lines 3123-3134: the reader has no handle and tries to open the port
OpenPort(i) ==
    /\ i \in DOMAIN readers
    /\ readers[i].ser = "none"
    /\ IF CanOpen(i)
       THEN /\ readers' = [readers EXCEPT ![i].ser = "open"]
            /\ serial_connected_status' = Put(serial_connected_status, readers[i].port, TRUE)
            /\ serial_objs' = Put(serial_objs, readers[i].port, i)
       ELSE /\ serial_connected_status' = Put(serial_connected_status, readers[i].port, FALSE)
            /\ UNCHANGED <<readers, serial_objs>>
    /\ UNCHANGED <<storeVars, SELECTED_PORTS, last_mac_by_port, devices, kml_jobs, upd_jobs, faa_request>>

\* lines 3136-3160: the reader takes the next line of its device and parses it.
\* On a value that is not a dict, `'mac' in detection` (a number),
\* `detection['mac'] = ...` or detection.get in update_detection (a string, a
\* list) raises TypeError or AttributeError, which lands in `except Exception`
\* of the read loop (lines 3175-3186)
ReadFrame(i) ==
    /\ i \in DOMAIN readers
    /\ readers[i].ser = "open"
    /\ readers[i].detection = None
    /\ LET p == readers[i].port
           k == devices[p].sent + 1
       IN  /\ devices[p].present
           /\ k <= Len(feed.frames[p])
           /\ Len(detection_history) + Pending < MaxHist
           /\ devices' = [devices EXCEPT ![p].sent = k]
           /\ LET parsed == parse_line(feed.frames[p][k]) IN
              IF ~parsed.decoded
              THEN UNCHANGED <<last_mac_by_port, readers, serial_connected_status,
                               serial_objs>>
              ELSE IF ~parsed.dict
              THEN /\ Disconnect(i)
                   /\ UNCHANGED last_mac_by_port
              ELSE LET detection == ReaderDetection(parsed.value, p, last_mac_by_port) IN
                   /\ last_mac_by_port' = IF Has(parsed.value, "mac")
                                          THEN Put(last_mac_by_port, p, parsed.value["mac"])
                                          ELSE last_mac_by_port
                   /\ readers' = IF Has(detection, "heartbeat") THEN readers
                                 ELSE [readers EXCEPT ![i].detection = Some(detection)]
                   /\ UNCHANGED <<serial_connected_status, serial_objs>>
    /\ UNCHANGED <<storeVars, SELECTED_PORTS, kml_jobs, upd_jobs, faa_request>>

\* lines 3138, 3163-3174: in_waiting or readline raises on a handle whose device
\* has gone
ReadError(i) ==
    /\ i \in DOMAIN readers
    /\ readers[i].ser = "stale"
    /\ readers[i].detection = None
    /\ Disconnect(i)
    /\ UNCHANGED <<storeVars, SELECTED_PORTS, last_mac_by_port, devices, kml_jobs, upd_jobs, faa_request>>

\* lines 3162-3186: update_detection(detection) in the reader's thread; an
\* exception that leaves it lands in the reader's except handlers
ProcessFrame(i, t, fault) ==
    /\ i \in DOMAIN readers
    /\ readers[i].detection # None
    /\ \E wait \in feed.waits :
       \E r \in {update_detection(readers[i].detection[1], t, fault, wait)} :
         /\ ApplyUpdate(r)
         /\ received' = IF r.accepted THEN Append(received, readers[i].detection[1])
                        ELSE received
         /\ now' = IF r.accepted THEN r.end ELSE now
         /\ IF r.raised
            THEN Disconnect(i)
            ELSE /\ readers' = [readers EXCEPT ![i].detection = None]
                 /\ UNCHANGED <<serial_connected_status, serial_objs>>
    /\ UNCHANGED <<faa_log, ALIASES, aliases_file, WEBHOOK_URL, resp, feed,
                   SELECTED_PORTS, last_mac_by_port, devices, kml_jobs, upd_jobs, faa_request>>

\* the device is pulled out: the handles that are open on it stop working
Unplug(p) ==
    /\ devices[p].present
    /\ devices' = [devices EXCEPT ![p].present = FALSE]
    /\ readers' = [i \in DOMAIN readers |->
                     IF readers[i].port = p /\ readers[i].ser = "open"
                     THEN [readers[i] EXCEPT !.ser = "stale"]
                     ELSE readers[i]]
    /\ UNCHANGED <<storeVars, SELECTED_PORTS, serial_connected_status,
                   last_mac_by_port, serial_objs, kml_jobs, upd_jobs, faa_request>>

\* the device is plugged in again
Plug(p) ==
    /\ ~devices[p].present
    /\ devices' = [devices EXCEPT ![p].present = TRUE]
    /\ UNCHANGED <<storeVars, SELECTED_PORTS, serial_connected_status,
                   last_mac_by_port, serial_objs, readers, kml_jobs, upd_jobs, faa_request>>

\* One run with serial devices: device p1 sends a record with its mac and one
\* without, device p2 one record with a remote_id and no mac, then a line that
\* holds a number. `exclusive` tells whether
\* the platform refuses to open a port that is open already (Windows) or not
\* (POSIX, pyserial's default)
FeedSerial(exclusive) ==
    [ inputs    |-> {},
      ops       |-> {"serial"},
      gaps      |-> NoGap,
      faults    |-> {"none", "csv"},
      waits     |-> NoWait,
      frames    |-> [p \in {"p1", "p2"} |->
                       IF p = "p1"
                       THEN << [kind |-> "json",
                                obj |-> [mac |-> "A", drone_lat |-> 1, drone_long |-> 1]],
                               [kind |-> "json",
                                obj |-> [drone_lat |-> 2, drone_long |-> 2]] >>
                       ELSE << [kind |-> "json",
                                obj |-> [remote_id |-> "R",
                                         drone_lat |-> 3, drone_long |-> 3]],
                               [kind |-> "value", val |-> 42] >>],
      forms     |-> { [k \in {"port1"} |-> "p1"],
                      [k \in {"port1", "port2"} |-> IF k = "port1" THEN "p1" ELSE "p2"] },
      exclusive |-> exclusive ]

\* One run with a single device that sends noise and one record, with a
\* session CSV that may fail to open (a record stored then throws its reader
\* out of the read loop): for the retry loop of the readers
FeedRetry(exclusive) ==
    [ inputs    |-> {},
      ops       |-> {"serial"},
      gaps      |-> NoGap,
      faults    |-> {"none", "csv"},
      waits     |-> NoWait,
      frames    |-> [p \in {"p1"} |->
                       << [kind |-> "noise"],
                          [kind |-> "json",
                           obj |-> [mac |-> "A", drone_lat |-> 1, drone_long |-> 1]] >>],
      forms     |-> { [k \in {"port1"} |-> "p1"] },
      exclusive |-> exclusive ]

\* lines 33-129: the module globals when the server starts
Startup ==
    /\ heap = EmptyDict
    /\ tracked_pairs = EmptyDict
    /\ detection_history = <<>>
    /\ FAA_CACHE = <<>>
    /\ faa_cache_file = <<>>
    /\ faa_log = <<>>
    /\ ALIASES = EmptyDict
    /\ aliases_file = EmptyDict
    /\ csv_file = [header |-> 1, rows |-> <<>>]
    /\ cum_csv_file = [header |-> 1, rows |-> <<>>]
    /\ kml_file = EmptyDict
    /\ cum_kml_file = EmptyDict
    /\ WEBHOOK_URL = ""
    /\ webhook_posts = <<>>
    /\ now = 1
    /\ resp = [op |-> "start", status |-> 0, body |-> EmptyDict]
    /\ received = <<>>
    /\ io_failed = FALSE
    /\ SerialInit
    /\ kml_jobs = <<>>
    /\ upd_jobs = <<>>
    /\ faa_request = NoRequest

InitSerial == Startup /\ feed \in { FeedSerial(exclusive) : exclusive \in BOOLEAN }

InitRetry == Startup /\ feed \in { FeedRetry(exclusive) : exclusive \in BOOLEAN }

\* one step of reader i
ReaderStep(i) ==
    \/ OpenPort(i)
    \/ ReadFrame(i)
    \/ ReadError(i)
    \/ \E t \in ClockReadings : \E fault \in feed.faults : ProcessFrame(i, t, fault)

\* The readers and their devices: the port selection and the steps of every
\* reader, in any order
NextSerial ==
    \/ \E form \in feed.forms : SelectPortsPost(form)
    \/ \E i \in 1..MaxThreads : OpenPort(i)
    \/ \E i \in 1..MaxThreads : ReadFrame(i)
    \/ \E i \in 1..MaxThreads : ReadError(i)
    \/ \E i \in 1..MaxThreads : \E t \in ClockReadings : \E fault \in feed.faults :
           ProcessFrame(i, t, fault)
    \/ \E p \in DOMAIN feed.frames : Unplug(p)
    \/ \E p \in DOMAIN feed.frames : Plug(p)

SpecSerial == InitSerial /\ [][NextSerial]_vars

\* Every reader is a thread of its own and the scheduler lets each run again
\* and again
SpecSerialFair ==
    InitRetry /\ [][NextSerial]_vars /\ \A i \in 1..MaxThreads : WF_vars(ReaderStep(i))


----------------------------------------------------------------------------
(* Properties of the serial readers *)

\* reader i holds a working handle
Reading(i) == i \in DOMAIN readers /\ readers[i].ser = "open"

\* an open of reader i's port would succeed: the device is plugged in and, on a
\* platform with exclusive opens, no other reader holds the port
Openable(i) ==
    /\ i \in DOMAIN readers
    /\ devices[readers[i].port].present
    /\ feed.exclusive =>
         ~\E j \in DOMAIN readers :
             j # i /\ readers[j].port = readers[i].port /\ readers[j].ser = "open"

\* C17: a reader never gives up: if from some point on its device can always be
\* opened, the reader holds an open handle again and again after that point
\* (under fair scheduling of the reader), and every time a reader gets its
\* handle the connected flag of its port becomes true
C17_ReaderEventuallyConnected ==
    /\ \A i \in 1..MaxThreads : (<>[]Openable(i)) => []<>Reading(i)
    /\ [][ \A i \in DOMAIN readers :
             ( ~Reading(i) /\ readers'[i].ser = "open" )
             => serial_connected_status'[readers[i].port] = TRUE ]_vars

\* A reader that lost its device (its status says disconnected, its handle is
\* gone) after it stored a record, and the device is back: the retry is what
\* reconnects it
C17_Witness ==
    /\ Len(readers) = 1
    /\ readers[1].ser = "none"
    /\ devices["p1"].present /\ devices["p1"].sent = 2
    /\ serial_connected_status["p1"] = FALSE
    /\ "p1" \notin DOMAIN serial_objs
    /\ Len(detection_history) = 1
    /\ io_failed



\* C16: when a read on a handle whose device has gone raises, the reader sets
\* the connected flag of its port false, drops its handle, takes the port out
\* of the handle table and forwards no detection; when an open fails, the flag
\* is false and the reader stays without a handle; a reader without a handle
\* can always try the open again
C16_ReaderErrorHandling ==
    /\ [][ \A i \in DOMAIN readers :
             LET p == readers[i].port IN
             /\ ( /\ readers[i].ser = "stale"
                  /\ readers[i].detection = None
                  /\ readers'[i] # readers[i] )
                => /\ serial_connected_status'[p] = FALSE
                   /\ readers'[i].ser = "none"
                   /\ p \notin DOMAIN serial_objs'
                   /\ detection_history' = detection_history
                   /\ received' = received
             /\ ( readers[i].ser = "none" /\ ~CanOpen(i) /\ OpenPort(i) )
                => /\ serial_connected_status'[p] = FALSE
                   /\ readers'[i].ser = "none"
                   /\ detection_history' = detection_history ]_vars
    /\ [](\A i \in DOMAIN readers : readers[i].ser = "none" => ENABLED OpenPort(i))

\* Two readers on two devices had connected and device p1 was pulled out after
\* its first record was stored: its reader hit the read error, the other one
\* is still connected
C16_Witness ==
    /\ Len(readers) = 2
    /\ readers[1] = [port |-> "p1", ser |-> "none", detection |-> None]
    /\ readers[2].port = "p2" /\ readers[2].ser = "open"
    /\ ~devices["p1"].present /\ devices["p1"].sent = 1
    /\ serial_connected_status = [p \in Ports |-> p = "p2"]
    /\ DOMAIN serial_objs = {"p2"}
    /\ Len(detection_history) = 1
    /\ ~io_failed

\* the positions of the history that hold the record of frame k of device p
\* (every frame of a run has a drone_lat of its own)
FramePositions(p, k) ==
    { n \in 1..Len(detection_history) :
        /\ feed.frames[p][k].kind = "json"
        /\ Get(HistDicts[n], "drone_lat", 0) = feed.frames[p][k].obj["drone_lat"] }

\* C18: the records of two frames read from the same device are in the history
\* in the order the frames were read
C18_PerDeviceOrder ==
    \A p \in DOMAIN feed.frames :
      \A j, k \in 1..devices[p].sent :
        j < k => \A a \in FramePositions(p, j) : \A b \in FramePositions(p, k) : a < b


----------------------------------------------------------------------------
(* generate_kml under concurrency. Flask serves every request in a thread of *)
(* its own (app.run, threaded by default) and nothing but serial_objs has a   *)
(* lock, so the steps of one generate_kml call (lines 163-257) interleave     *)
(* with updates and with other calls. A job is one GET /download/kml request  *)
(* (lines 3197-3201): [stage, macs, doc], stage being the last step done.     *)

\* GET /download/kml requests per run
MaxJobs == 2

\* line 165: macs = sorted({d['mac'] for d in detection_history})
KmlStart ==
    /\ Len(kml_jobs) < MaxJobs
    /\ kml_jobs' = Append(kml_jobs, [stage |-> "macs", macs |-> MacsOf(HistDicts),
                                     doc |-> EmptyDict])
    /\ UNCHANGED <<storeVars, serialVars, upd_jobs, faa_request>>

\* lines 166-251: the loop over the macs collected before, each with a scan of
\* detection_history as it is now
KmlBuild(j) ==
    /\ j \in DOMAIN kml_jobs
    /\ kml_jobs[j].stage = "macs"
    /\ kml_jobs' = [kml_jobs EXCEPT ![j] =
                      [ stage |-> "built", macs |-> @.macs,
                        doc |-> [mac \in @.macs |->
                                   Flights(HistDicts, mac, Get(ALIASES, mac, ""), FALSE)] ]]
    /\ UNCHANGED <<storeVars, serialVars, upd_jobs, faa_request>>

\* line 255: open(KML_FILENAME, "w") leaves the file empty
KmlOpen(j) ==
    /\ j \in DOMAIN kml_jobs
    /\ kml_jobs[j].stage = "built"
    /\ kml_jobs' = [kml_jobs EXCEPT ![j].stage = "opened"]
    /\ kml_file' = EmptyDict
    /\ UNCHANGED <<heap, tracked_pairs, detection_history, FAA_CACHE, faa_cache_file,
                   faa_log, ALIASES, aliases_file, csv_file, cum_csv_file,
                   cum_kml_file, WEBHOOK_URL, webhook_posts, now, resp, feed, received,
                   io_failed, serialVars, upd_jobs, faa_request>>

\* lines 256-257: f.write("\n".join(kml_lines)) and the close
KmlWrite(j) ==
    /\ j \in DOMAIN kml_jobs
    /\ kml_jobs[j].stage = "opened"
    /\ kml_jobs' = [kml_jobs EXCEPT ![j].stage = "written"]
    /\ kml_file' = kml_jobs[j].doc
    /\ UNCHANGED <<heap, tracked_pairs, detection_history, FAA_CACHE, faa_cache_file,
                   faa_log, ALIASES, aliases_file, csv_file, cum_csv_file,
                   cum_kml_file, WEBHOOK_URL, webhook_posts, now, resp, feed, received,
                   io_failed, serialVars, upd_jobs, faa_request>>

\* line 3201: send_file(KML_FILENAME) reads the file as it is now; it is an
\* empty file while another call stands between its open and its write
KmlSend(j) ==
    /\ j \in DOMAIN kml_jobs
    /\ kml_jobs[j].stage = "written"
    /\ kml_jobs' = [kml_jobs EXCEPT ![j].stage = "sent"]
    /\ resp' = [ op |-> "download_kml", status |-> 200, body |-> kml_file,
                 truncated |-> \E k \in DOMAIN kml_jobs : kml_jobs[k].stage = "opened" ]
    /\ UNCHANGED <<heap, tracked_pairs, detection_history, FAA_CACHE, faa_cache_file,
                   faa_log, ALIASES, aliases_file, csv_file, cum_csv_file, kml_file,
                   cum_kml_file, WEBHOOK_URL, webhook_posts, now, feed, received,
                   io_failed, serialVars, upd_jobs, faa_request>>

\* One run with two drones reporting while the session KML is downloaded
FeedRace ==
    [ inputs |-> { [mac |-> "A", drone_lat |-> 1, drone_long |-> 1],
                   [mac |-> "B", drone_lat |-> 1, drone_long |-> 1] },
      ops    |-> {"download_kml"},
      gaps   |-> NoGap,
      faults |-> NoFault,
      waits  |-> NoWait ]

InitRace == Startup /\ feed = FeedRace

NextRace ==
    \/ /\ \E detection \in feed.inputs : \E t \in ClockReadings :
              PostDetection(detection, t, "none")
       /\ UNCHANGED <<serialVars, kml_jobs, upd_jobs, faa_request>>
    \/ KmlStart
    \/ \E j \in 1..MaxJobs : KmlBuild(j)
    \/ \E j \in 1..MaxJobs : KmlOpen(j)
    \/ \E j \in 1..MaxJobs : KmlWrite(j)
    \/ \E j \in 1..MaxJobs : KmlSend(j)

SpecRace == InitRace /\ [][NextRace]_vars

\* C19: under any interleaving of updates and downloads, the document a
\* generate_kml call builds is the one of the history as it was at one moment
\* (the history only grows, so at one of its lengths), and a download never
\* sends a file that another call has emptied and not yet written
C19_ConsistentExports ==
    /\ \A j \in DOMAIN kml_jobs :
         kml_jobs[j].stage # "macs"
         => \E n \in 0..Len(detection_history) :
              kml_jobs[j].doc = generate_kml(SubSeq(HistDicts, 1, n), ALIASES).doc
    /\ ( resp.op = "download_kml" /\ "truncated" \in DOMAIN resp ) => ~resp.truncated


----------------------------------------------------------------------------
(* Properties of the registry lookup *)

-----------------------------------------------------------------------------
(* Registry lookups on request *)

\* C21: when POST /api/query_faa answers ok with payload R for (mac, remote id),
\* then afterwards the cache holds R under (mac, remote id), the tracked entry
\* of mac holds R as its faa_data, and every other field of an entry that
\* existed before is what it was
C21_ResolvePersists ==
    [][ (faa_log' # faa_log /\ resp'.op = "api_query_faa" /\ resp'.status = 200) =>
          LET row == Last(faa_log')
              mac == row.mac
              R   == resp'.body.faa_data
          IN  /\ CacheHas(FAA_CACHE', <<mac, row.remote_id>>)
              /\ CacheGet(FAA_CACHE', <<mac, row.remote_id>>) = R
              /\ mac \in DOMAIN tracked_pairs'
              /\ Has(heap'[tracked_pairs'[mac]], "faa_data")
              /\ heap'[tracked_pairs'[mac]]["faa_data"] = R
              /\ mac \in DOMAIN tracked_pairs =>
                   /\ DOMAIN heap'[tracked_pairs'[mac]] \ {"faa_data"}
                        = DOMAIN heap[tracked_pairs[mac]] \ {"faa_data"}
                   /\ \A k \in DOMAIN heap[tracked_pairs[mac]] \ {"faa_data"} :
                        heap'[tracked_pairs'[mac]][k] = heap[tracked_pairs[mac]][k]
    ]_vars

\* A lookup answered with items for a drone that is tracked with a position
C21_Witness ==
    /\ resp.op = "api_query_faa"
    /\ resp.status = 200
    /\ resp.body.faa_data = "F2"
    /\ "A" \in DOMAIN tracked_pairs
    /\ Has(heap[tracked_pairs["A"]], "drone_lat")
    /\ heap[tracked_pairs["A"]]["faa_data"] = "F2"
    /\ Len(faa_log) = 1
    /\ CacheGet(FAA_CACHE, <<"A", faa_log[1].remote_id>>) = "F2"


\* C22: POST /api/query_faa answers with an error exactly when nothing usable
\* is available. A lookup that the registry fails or answers with zero items,
\* with no cache entry for the mac, is an error and leaves the tracked entries,
\* the cache and the audit log as they were; so does a request without mac or
\* remote id
C22_ErrorWhenNothingUsable ==
    [][ resp'.op = "api_query_faa" =>
          \A mac \in {"A", ""} : \A remote_id \in {"X", "Y"} : \A answer \in RegistryAnswers :
            ApiQueryFaa(mac, remote_id, answer) =>
              LET usable == \/ answer # None /\ HasItems(answer[1])
                            \/ \E i \in 1..Len(FAA_CACHE) : FAA_CACHE[i].key[1] = mac
                  error  == resp'.status >= 400
              IN  /\ error <=> (mac = "" \/ ~usable)
                  /\ error => /\ tracked_pairs' = tracked_pairs
                              /\ \A m \in DOMAIN tracked_pairs :
                                   heap'[tracked_pairs[m]] = heap[tracked_pairs[m]]
                              /\ FAA_CACHE' = FAA_CACHE
                              /\ faa_log' = faa_log ]_vars


\* C23: GET /api/faa/<identifier> answers from the first of four places that
\* has registry data for the identifier: the tracked entry with that mac, a
\* tracked entry with that remote id, a cache entry with that remote id, a
\* cache entry with that mac; it answers 404 exactly when none has, and it
\* changes nothing
C23_GetFaaCascade ==
    [][ resp'.op = "api_get_faa" =>
          /\ resp.op # "api_get_faa" =>
               UNCHANGED <<heap, tracked_pairs, detection_history, FAA_CACHE,
                           faa_cache_file, faa_log, kml_file, csv_file, cum_csv_file,
                           cum_kml_file, ALIASES, aliases_file, received>>
          /\ \A id \in Identifiers :
               ApiGetFaa(id) =>
                 LET liveMac  == id \in DOMAIN tracked_pairs /\ Has(Live(id), "faa_data")
                     liveRid  == { m \in DOMAIN tracked_pairs :
                                     /\ Has(Live(m), "basic_id") /\ Live(m)["basic_id"] = id
                                     /\ Has(Live(m), "faa_data") }
                     cacheRid == { i \in 1..Len(FAA_CACHE) : FAA_CACHE[i].key[2] = id }
                     cacheMac == { i \in 1..Len(FAA_CACHE) : FAA_CACHE[i].key[1] = id }
                     ok(f)    == resp'.status = 200 /\ resp'.body.status = "ok"
                                 /\ resp'.body.faa_data = f
                 IN  /\ liveMac => ok(Live(id)["faa_data"])
                     /\ (~liveMac /\ liveRid # {}) =>
                          \E m \in liveRid : ok(Live(m)["faa_data"])
                     /\ (~liveMac /\ liveRid = {} /\ cacheRid # {}) =>
                          \E i \in cacheRid : ok(FAA_CACHE[i].val)
                     /\ (~liveMac /\ liveRid = {} /\ cacheRid = {} /\ cacheMac # {}) =>
                          \E i \in cacheMac : ok(FAA_CACHE[i].val)
                     /\ resp'.status = 404 <=>
                          (~liveMac /\ liveRid = {} /\ cacheRid = {} /\ cacheMac = {})
    ]_vars

\* Drone A is tracked with remote id Y and the payload F2 of a later lookup,
\* while the cache still has F1 first under A and under Y: the answer is F2
C23_Witness ==
    /\ resp.op = "api_get_faa" /\ resp.status = 200
    /\ resp.body.faa_data = "F2"
    /\ "A" \in DOMAIN tracked_pairs
    /\ Has(Live("A"), "basic_id") /\ Live("A")["basic_id"] = "Y"
    /\ Has(Live("A"), "faa_data") /\ Live("A")["faa_data"] = "F2"
    /\ Len(FAA_CACHE) = 2
    /\ FAA_CACHE[1] = [key |-> <<"A", "Y">>, val |-> "F1"]


\* Row r of the audit log is the only lookup for mac and was made when mac had
\* not been seen: every detection of mac in the history is stamped later than
\* the row
ResolvedUnseen(r, mac) ==
    /\ faa_log[r].mac = mac
    /\ \A q \in 1..Len(faa_log) : faa_log[q].mac = mac => q = r
    /\ \A i \in 1..Len(detection_history) :
         LET d == heap[detection_history[i]]
         IN  (Has(d, "mac") /\ d["mac"] = mac) =>
               (Has(d, "last_update") /\ d["last_update"] > faa_log[r].timestamp)

\* C24: GET /api/faa/<mac> answers 404 for a mac that no detection and no
\* lookup has brought and that the cache does not have; once a lookup for such
\* a mac has succeeded, every later GET /api/faa/<mac> answers 200 with the
\* payload of that lookup
C24_ResolvedPayloadServed ==
    [][ resp'.op = "api_get_faa" =>
          \A mac \in Macs :
            ApiGetFaa(mac) =>
              /\ ( /\ mac \notin DOMAIN tracked_pairs
                   /\ \A i \in 1..Len(FAA_CACHE) : FAA_CACHE[i].key[1] # mac )
                 => resp'.status = 404
              /\ \A r \in 1..Len(faa_log) :
                   ResolvedUnseen(r, mac) =>
                     /\ resp'.status = 200
                     /\ resp'.body.faa_data = faa_log[r].faa_response ]_vars


-----------------------------------------------------------------------------
(* Aliases *)

\* Only a set_alias or clear_alias answered ok changes the alias map or its
\* file, so no update does; those two requests leave the tracked entries, the
\* history and the registry cache as they were; set_alias without mac (400)
\* and clear_alias of a mac without alias (404) leave the map as it was
AliasFrame ==
    /\ (ALIASES' # ALIASES \/ aliases_file' # aliases_file) =>
         /\ resp'.op \in {"api_set_alias", "api_clear_alias"}
         /\ resp'.status = 200
         /\ received' = received
    /\ resp'.op \in {"api_set_alias", "api_clear_alias"} =>
         /\ UNCHANGED <<heap, tracked_pairs, detection_history, FAA_CACHE>>
         /\ resp'.status \in {400, 404} => UNCHANGED <<ALIASES, aliases_file>>

-----------------------------------------------------------------------------
(* Repeated records *)

\* The number of flights of mac in a KML document
FlightCount(doc, mac) == IF mac \in DOMAIN doc THEN Len(doc[mac]) ELSE 0

\* The drone polyline of mac in the body of /api/paths
Polyline(body, mac) ==
    IF mac \in DOMAIN body.dronePaths THEN body.dronePaths[mac] ELSE <<>>

\* The place in the history of the latest record of mac, 0 when it has none
LatestOf(mac) ==
    LET S == { i \in 1..Len(received) : received[i]["mac"] = mac }
    IN  IF S = {} THEN 0 ELSE CHOOSE i \in S : \A j \in S : j <= i

\* C26: when an accepted record is identical to the previous record of the same
\* mac and is ingested within the stale threshold of it, the session KML
\* generated afterwards has no more flights of that mac than the one generated
\* before, and the polyline of the mac in /api/paths is what it was
C26_RepeatIsIdempotent ==
    [][ (received' # received /\ Len(received) >= 1) =>
          LET d    == Last(received')
              mac  == d["mac"]
              prev == LatestOf(mac)
          IN  ( /\ prev # 0
                /\ received[prev] = d
                /\ Has(HistDicts[prev], "last_update") =>
                     now' - HistDicts[prev]["last_update"] <= staleThreshold )
              => /\ FlightCount(generate_kml(DictsOf(heap', detection_history'),
                                              ALIASES').doc, mac)
                      <= FlightCount(generate_kml(HistDicts, ALIASES).doc, mac)
                 /\ Polyline(api_paths(DictsOf(heap', detection_history')), mac)
                      = Polyline(api_paths(HistDicts), mac)
    ]_vars

\* The same fix of drone A arrived twice, the second time exactly at the stale
\* threshold after the first: one flight and a polyline of one point
C26_Witness ==
    /\ Len(received) = 2
    /\ received[1] = received[2]
    /\ received[1] = [mac |-> "A", drone_lat |-> 1, drone_long |-> 1]
    /\ HistDicts[2]["last_update"] - HistDicts[1]["last_update"] = staleThreshold
    /\ FlightCount(kml_file, "A") = 1
    /\ Len(kml_file["A"][1].coords) = 2
    /\ Polyline(api_paths(HistDicts), "A") = <<<<1, 1>>>>


-----------------------------------------------------------------------------
(* Who writes the tracked entries *)

\* C27 as stated: only an update changes the tracked entries: a request that
\* is not a posted detection (registry lookup, reactivate, set or clear alias,
\* GET /api/detections, GET /api/faa, GET /api/paths, the downloads) leaves
\* every tracked entry as it was and tracks no new mac
C27_LiveStateOnlyByUpdate ==
    [][ resp'.op # "post_detection" =>
          /\ DOMAIN tracked_pairs' = DOMAIN tracked_pairs
          /\ \A mac \in DOMAIN tracked_pairs :
               heap'[tracked_pairs'[mac]] = heap[tracked_pairs[mac]] ]_vars

\* The tracked entry of mac is what it was but for field k
SameBut(mac, k) ==
    /\ DOMAIN heap'[tracked_pairs'[mac]] \ {k} = DOMAIN heap[tracked_pairs[mac]] \ {k}
    /\ \A f \in DOMAIN heap[tracked_pairs[mac]] \ {k} :
         heap'[tracked_pairs'[mac]][f] = heap[tracked_pairs[mac]][f]

\* C27, amended: the tracked entries are changed by an update, by a registry
\* lookup (which sets faa_data of the entry of its mac, or tracks the mac with
\* basic_id and faa_data only) and by reactivate (which sets last_update of
\* the entry of its mac); set or clear alias, GET /api/detections,
\* GET /api/faa, GET /api/paths and the downloads leave every tracked entry as
\* it was and track no new mac
C27_LiveStateWriters ==
    [][ /\ resp'.op \notin {"post_detection", "api_query_faa", "reactivate"} =>
             /\ DOMAIN tracked_pairs' = DOMAIN tracked_pairs
             /\ \A mac \in DOMAIN tracked_pairs :
                  heap'[tracked_pairs'[mac]] = heap[tracked_pairs[mac]]
        /\ resp'.op = "reactivate" =>
             /\ DOMAIN tracked_pairs' = DOMAIN tracked_pairs
             /\ \A mac \in DOMAIN tracked_pairs : SameBut(mac, "last_update")
             /\ resp'.status = 200 =>
                  heap'[tracked_pairs'[resp'.body.mac]]["last_update"] = now'
        /\ resp'.op = "api_query_faa" =>
             /\ DOMAIN tracked_pairs \subseteq DOMAIN tracked_pairs'
             /\ \A mac \in DOMAIN tracked_pairs : SameBut(mac, "faa_data")
             /\ \A mac \in DOMAIN tracked_pairs' \ DOMAIN tracked_pairs :
                  DOMAIN heap'[tracked_pairs'[mac]] = {"basic_id", "faa_data"}
    ]_vars

\* A drone seen at one time and reactivated later: its tracked entry has the
\* later time, its position is what the detection brought
C27_Witness ==
    /\ resp.op = "reactivate" /\ resp.status = 200
    /\ "A" \in DOMAIN tracked_pairs
    /\ Len(detection_history) >= 1
    /\ Has(Live("A"), "drone_lat")
    /\ Has(Last(HistDicts), "last_update")
    /\ Live("A")["last_update"] > Last(HistDicts)["last_update"]


-----------------------------------------------------------------------------
(* Lines off the serial devices *)

\* The mac of the latest of the first n lines of device p that has one, None
\* when none has
LastMacSeen(p, n) ==
    LET S == { j \in 1..n : /\ feed.frames[p][j].kind = "json"
                            /\ Has(feed.frames[p][j].obj, "mac") }
    IN  IF S = {} THEN None
        ELSE Some(feed.frames[p][CHOOSE j \in S : \A q \in S : q <= j].obj["mac"])

C29_MalformedLineHarmless ==
    [][ \A p \in DOMAIN feed.frames :
          ( /\ devices'[p].sent = devices[p].sent + 1
            /\ feed.frames[p][devices'[p].sent].kind # "json" )
          => /\ readers' = readers
             /\ serial_connected_status' = serial_connected_status
             /\ serial_objs' = serial_objs
             /\ detection_history' = detection_history
             /\ received' = received
    ]_vars


-----------------------------------------------------------------------------
(* Registry data of a detection with a fix *)

\* C30: after an update with a fix, the faa_data of the tracked entry of its
\* mac is the cache's payload for exactly (mac, remote id) when there is one;
\* when there is none, the payload of a cache entry for the mac when there is
\* one; when there is none either, the faa_data of the entry tracked before
C30_RegistryCascade ==
    [][ (received' # received /\ valid_drone(Last(received'))) =>
          LET mac    == Last(received')["mac"]
              entry  == heap'[tracked_pairs'[mac]]
              rid    == Get(entry, "basic_id", "")
              exact  == { i \in 1..Len(FAA_CACHE) : FAA_CACHE[i].key = <<mac, rid>> }
              bymac  == { i \in 1..Len(FAA_CACHE) : FAA_CACHE[i].key[1] = mac }
              before == mac \in DOMAIN tracked_pairs /\ Has(Live(mac), "faa_data")
          IN  /\ exact # {} =>
                   /\ Has(entry, "faa_data")
                   /\ \E i \in exact : entry["faa_data"] = FAA_CACHE[i].val
              /\ (exact = {} /\ bymac # {}) =>
                   /\ Has(entry, "faa_data")
                   /\ \E i \in bymac : entry["faa_data"] = FAA_CACHE[i].val
              /\ (exact = {} /\ bymac = {} /\ before) =>
                   /\ Has(entry, "faa_data")
                   /\ entry["faa_data"] = Live(mac)["faa_data"]
    ]_vars

----------------------------------------------------------------------------
(* Flights as a partition of the valid-position points *)

\* The coords of the folders, joined in document order
RECURSIVE FlightConcat(_)
FlightConcat(folders) ==
    IF folders = <<>> THEN <<>>
    ELSE folders[1].coords \o FlightConcat(Tail(folders))

\* The folders of mac in doc partition the points pts: none is empty, joined in
\* order they give pts in order, and they are numbered 1, 2, 3, ...
FlightsPartition(doc, mac, pts) ==
    \A folders \in {IF mac \in DOMAIN doc THEN doc[mac] ELSE <<>>} :
      /\ \A f \in 1..Len(folders) : folders[f].coords # <<>> /\ folders[f].idx = f
      /\ FlightConcat(folders)
           = [k \in 1..Len(pts) |-> <<pts[k].lon, pts[k].lat, pts[k].ts>>]

\* C31: for each mac the flights of the session KML and of the cumulative KML
\* partition its valid-position points: no flight is empty, the flights joined
\* in index order give the points in their original order (so each point lies
\* in exactly one flight), and the flight indices are 1, 2, 3, ... without gaps
C31_FlightsPartitionPoints ==
    \A mac \in Macs :
      /\ resp.op = "download_kml" => FlightsPartition(kml_file, mac, SessionPoints(mac))
      /\ resp.op = "generate_cumulative_kml"
           => FlightsPartition(cum_kml_file, mac, CumulativePoints(mac))

\* Both exports are written for a history of three fixes that fall into two
\* flights, with a no-fix record among the updates
C31_Witness ==
    /\ resp.op = "generate_cumulative_kml" /\ kml_file # EmptyDict
    /\ Len(received) = MaxPts
    /\ Len(SessionPoints("A")) = 2 /\ Len(CumulativePoints("A")) = 2
    /\ Len(kml_file["A"]) = 2 /\ Len(cum_kml_file["A"]) = 2
    /\ Len(kml_file["A"][1].coords) = 1

----------------------------------------------------------------------------
(* Timestamps of the stored records *)

\* C32: every accepted update, fix-bearing or no-fix, leaves a last_update
\* timestamp on the record it stores: the live entry of its mac and the history
\* entry it appends both carry last_update
C32_EveryUpdateStamped ==
    [][ received' # received =>
          LET mac == Last(received')["mac"] IN
          /\ Has(heap'[tracked_pairs'[mac]], "last_update")
          /\ Has(Last(DictsOf(heap', detection_history')), "last_update") ]_vars

----------------------------------------------------------------------------
(* update_detection under concurrency. Every serial reader is a thread       *)
(* (line 3189) and Flask serves every request in a thread of its own; the    *)
(* only lock is serial_objs_lock (lines 59-61), so the statements of one      *)
(* merge-branch call (lines 450-529) interleave with those of another. A job  *)
(* is one call: [stage, detection], detection its local dict.                 *)

\* update_detection calls per run
MaxUpdates == 2

\* lines 379-477: the mac and position tests, the defaults and the timestamp,
\* then the reads of tracked_pairs and FAA_CACHE that fill basic_id and faa_data
UpdRead(detection, t) ==
    /\ Len(upd_jobs) < MaxUpdates
    /\ ~Rejected(detection)
    /\ valid_drone(detection)
    /\ upd_jobs' = Append(upd_jobs,
                     [ stage |-> "read",
                       detection |-> ResolveFaa(CarryBasicId(Stamp(detection, t),
                                                             detection["mac"]),
                                                detection["mac"]) ])
    /\ received' = Append(received, detection)
    /\ now' = t
    /\ UNCHANGED <<heap, tracked_pairs, detection_history, FAA_CACHE, faa_cache_file,
                   faa_log, ALIASES, aliases_file, csv_file, cum_csv_file, kml_file,
                   cum_kml_file, WEBHOOK_URL, webhook_posts, resp, feed, io_failed,
                   serialVars, kml_jobs, faa_request>>

\* lines 479-480: write_to_faa_cache when the record has faa_data
UpdCache(j) ==
    /\ j \in DOMAIN upd_jobs
    /\ upd_jobs[j].stage = "read"
    /\ upd_jobs' = [upd_jobs EXCEPT ![j].stage = "cached"]
    /\ \E d \in {upd_jobs[j].detection} :
       \E c \in { IF Has(d, "faa_data")
                  THEN write_to_faa_cache([cache |-> FAA_CACHE, file |-> faa_cache_file,
                                           raised |-> FALSE],
                                          d["mac"], Get(d, "basic_id", ""), d["faa_data"],
                                          "none")
                  ELSE [cache |-> FAA_CACHE, file |-> faa_cache_file, raised |-> FALSE] } :
         /\ FAA_CACHE' = c.cache
         /\ faa_cache_file' = c.file
    /\ UNCHANGED <<heap, tracked_pairs, detection_history, faa_log, ALIASES,
                   aliases_file, csv_file, cum_csv_file, kml_file, cum_kml_file,
                   WEBHOOK_URL, webhook_posts, now, resp, feed, received, io_failed,
                   serialVars, kml_jobs, faa_request>>

\* lines 482-488: tracked_pairs[mac] = detection and
\* detection_history.append(detection.copy())
UpdStore(j) ==
    /\ j \in DOMAIN upd_jobs
    /\ upd_jobs[j].stage = "cached"
    /\ upd_jobs' = [upd_jobs EXCEPT ![j].stage = "stored"]
    /\ \E d \in {upd_jobs[j].detection} :
       \E tp1 \in {Put(tracked_pairs, d["mac"], DetId)} :
       \E hist1 \in {Append(detection_history, Snapshot(DetId, CopyId))} :
         /\ tracked_pairs' = tp1
         /\ detection_history' = hist1
         /\ heap' = Reachable(Put(Put(heap, DetId, d), CopyId, d), tp1, hist1)
    /\ UNCHANGED <<FAA_CACHE, faa_cache_file, faa_log, ALIASES, aliases_file, csv_file,
                   cum_csv_file, kml_file, cum_kml_file, WEBHOOK_URL, webhook_posts,
                   now, resp, feed, received, io_failed, serialVars, kml_jobs, faa_request>>

\* lines 489-529: the CSV rows (stamped datetime.now()), then the cumulative and
\* the session KML
UpdLog(j) ==
    /\ j \in DOMAIN upd_jobs
    /\ upd_jobs[j].stage = "stored"
    /\ upd_jobs' = [upd_jobs EXCEPT ![j].stage = "done"]
    /\ \E row \in {CsvRow(upd_jobs[j].detection, now)} :
         /\ csv_file' = AppendRow(csv_file, row)
         /\ cum_csv_file' = AppendRow(cum_csv_file, row)
         /\ cum_kml_file' = generate_cumulative_kml(AppendRow(cum_csv_file, row).rows,
                                                    ALIASES)
    /\ kml_file' = generate_kml(HistDicts, ALIASES).doc
    /\ UNCHANGED <<heap, tracked_pairs, detection_history, FAA_CACHE, faa_cache_file,
                   faa_log, ALIASES, aliases_file, WEBHOOK_URL, webhook_posts, now,
                   resp, feed, received, io_failed, serialVars, kml_jobs, faa_request>>

\* Two reports of drone A, the first with its remote ID, a second apart at most
FeedUpdates ==
    [ inputs |-> { [mac |-> "A", drone_lat |-> 1, drone_long |-> 1, basic_id |-> "X"],
                   [mac |-> "A", drone_lat |-> 2, drone_long |-> 1] },
      ops    |-> {},
      gaps   |-> {0, 1},
      faults |-> NoFault,
      waits  |-> NoWait ]

InitUpdates == Startup /\ feed = FeedUpdates

NextUpdates ==
    \/ \E detection \in feed.inputs : \E t \in ClockReadings : UpdRead(detection, t)
    \/ \E j \in 1..MaxUpdates : UpdCache(j)
    \/ \E j \in 1..MaxUpdates : UpdStore(j)
    \/ \E j \in 1..MaxUpdates : UpdLog(j)

SpecUpdates == InitUpdates /\ [][NextUpdates]_vars

\* C33: for each mac the last_update timestamps of its history entries are
\* non-decreasing in append order (entries without a timestamp set aside)
C33_HistoryTimeOrdered ==
    \A i, k \in 1..Len(detection_history) :
      ( /\ i < k
        /\ HistDicts[i]["mac"] = HistDicts[k]["mac"]
        /\ Has(HistDicts[i], "last_update") /\ Has(HistDicts[k], "last_update") )
      => HistDicts[i]["last_update"] <= HistDicts[k]["last_update"]

----------------------------------------------------------------------------
(* Readers per device *)

\* C34: after any sequence of port-selection submissions every device has at
\* most one reader and there are at most three readers in all
C34_OneReaderPerDevice ==
    /\ \A i, j \in DOMAIN readers : readers[i].port = readers[j].port => i = j
    /\ Len(readers) <= 3

----------------------------------------------------------------------------
(* The registry request and its retries. create_retry_session mounts an      *)
(* HTTPAdapter whose Retry has total = read = connect = 3 and                 *)
(* status_forcelist = (502, 503, 504), raise_on_status = False (lines         *)
(* 540-560); query_remote_id sends one GET through it (lines 562-591). Every  *)
(* failed attempt spends one of `total`; a connection error also spends one   *)
(* of `connect`, a read error or read timeout one of `read`. The request is   *)
(* given up when a counter would fall below zero.                             *)

\* line 540: retries=3
retries == 3

\* line 540: status_forcelist=(502, 503, 504)
status_forcelist == {502, 503, 504}

\* What one attempt can end in: a response with a status, a connection error
\* (refused, DNS, connect timeout) or a read error (reset, read timeout)
Outcomes ==
    [kind : {"response"}, status : {200, 404, 500, 502, 503, 504}]
      \cup [kind : {"connect_error", "read_error"}, status : {0}]

\* lines 550-557: Retry(total=retries, read=retries, connect=retries, ...)
NewRetry == [total |-> retries, connect |-> retries, read |-> retries]

\* The counters after a failed attempt
Increment(retry, outcome) ==
    [ total   |-> retry.total - 1,
      connect |-> IF outcome.kind = "connect_error" THEN retry.connect - 1
                  ELSE retry.connect,
      read    |-> IF outcome.kind = "read_error" THEN retry.read - 1 ELSE retry.read ]

IsExhausted(retry) == retry.total < 0 \/ retry.connect < 0 \/ retry.read < 0

\* The adapter sends the request again after this outcome: a forced status
\* while total is not used up, an error while no counter is
Retried(retry, outcome) ==
    IF outcome.kind = "response"
    THEN outcome.status \in status_forcelist /\ retry.total > 0
    ELSE ~IsExhausted(Increment(retry, outcome))

\* lines 582-591: what query_remote_id returns once the adapter has given its
\* last outcome: response.json() for status 200, None for any other status and
\* for an exception
Answer(outcome) ==
    IF outcome.kind = "response" /\ outcome.status = 200 THEN Some("F2") ELSE None

\* lines 540-581: a session is created and the GET is about to be sent
StartQuery ==
    /\ faa_request.stage # "sending"
    /\ faa_request' = [stage |-> "sending", retry |-> NewRetry, outcomes |-> <<>>,
                       result |-> None]
    /\ UNCHANGED <<storeVars, serialVars, kml_jobs, upd_jobs>>

\* line 583: one attempt of session.get(endpoint, params=params, timeout=30)
Attempt(outcome) ==
    /\ faa_request.stage = "sending"
    /\ faa_request' =
         IF Retried(faa_request.retry, outcome)
         THEN [ stage |-> "sending", retry |-> Increment(faa_request.retry, outcome),
                outcomes |-> Append(faa_request.outcomes, outcome), result |-> None ]
         ELSE [ stage |-> "done", retry |-> faa_request.retry,
                outcomes |-> Append(faa_request.outcomes, outcome),
                result |-> Answer(outcome) ]
    /\ UNCHANGED <<storeVars, serialVars, kml_jobs, upd_jobs>>

InitQuery == Startup /\ feed = FeedRegistry

NextQuery ==
    \/ StartQuery
    \/ \E outcome \in Outcomes : Attempt(outcome)

SpecQuery == InitQuery /\ [][NextQuery]_vars

\* C35: the registry query is sent again at most 3 times, and only after a
\* response with status 502, 503 or 504; after any other failure (another
\* status, a connection error, a timeout) it returns no result at once
C35_RetryOnlyOnForcedStatus ==
    [][ faa_request.stage = "sending" =>
          \A outcome \in Outcomes :
            Attempt(outcome) =>
              /\ Len(faa_request'.outcomes) <= retries + 1
              /\ ~(outcome.kind = "response" /\ outcome.status \in status_forcelist \cup {200})
                   => faa_request'.stage = "done" /\ faa_request'.result = None ]_vars

\* The request ends after at most 1 + retries attempts
AttemptsBounded == Len(faa_request.outcomes) <= retries + 1

----------------------------------------------------------------------------
(* Updates as atomic operations *)

\* A stored record without its timestamp
Untimed(d) == [k \in (DOMAIN d) \ {"last_update"} |-> d[k]]

\* What one Update of a record with a position does to the live entries and
\* the history when nothing runs beside it and no registry data is known: the
\* entry of the mac is replaced by the record, which keeps the remote ID of the
\* previous entry if it has none of its own, and the same record is appended
SerialUpdate(st, r) ==
    LET mac == r["mac"]
        d0  == Untimed(Stamp(r, 0))
        d   == IF /\ ~TruthyStr(r, "basic_id")
                  /\ Has(st.live, mac) /\ TruthyStr(st.live[mac], "basic_id")
               THEN Put(d0, "basic_id", st.live[mac]["basic_id"])
               ELSE d0
    IN  [live |-> Put(st.live, mac, d), hist |-> Append(st.hist, d)]

\* The records rs applied one after the other in the order given by order
RECURSIVE SerialRun(_, _, _)
SerialRun(rs, order, n) ==
    IF n = 0 THEN [live |-> EmptyDict, hist |-> <<>>]
    ELSE SerialUpdate(SerialRun(rs, order, n - 1), rs[order[n]])

\* C36: concurrent updates leave the live entries and the history as some
\* serial execution of the same updates would: once every update that began
\* has stored its record, the live entries and the history (timestamps aside)
\* are those of the records applied one at a time in some order
C36_UpdatesSerializable ==
    ( /\ upd_jobs # <<>>
      /\ \A j \in DOMAIN upd_jobs : upd_jobs[j].stage \in {"stored", "done"} )
    => \E order \in Permutations(1..Len(received)) :
         \A s \in {SerialRun(received, order, Len(received))} :
           /\ [m \in DOMAIN tracked_pairs |-> Untimed(Live(m))] = s.live
           /\ [i \in 1..Len(HistDicts) |-> Untimed(HistDicts[i])] = s.hist

----------------------------------------------------------------------------
(* Records with one zero coordinate *)

\* Exactly one of drone_lat, drone_long of the record is zero
HalfZero(r) ==
    (Get(r, "drone_lat", 0) = 0) # (Get(r, "drone_long", 0) = 0)

\* C37: an accepted record in which exactly one of drone_lat, drone_long is zero
\* is handled by the merge path: the entry stored for its mac is the record with
\* the defaults and the timestamp of the merge, the remote ID carried forward
\* and the registry data of the cascade
C37_HalfZeroTakesMergePath ==
    [][ received' # received =>
          \A r \in {Last(received')} :
            HalfZero(r) =>
              heap'[tracked_pairs'[r["mac"]]]
                = ResolveFaa(CarryBasicId(Stamp(r, now'), r["mac"]), r["mac"]) ]_vars

----------------------------------------------------------------------------
(* The connected flag *)

\* C38: the connected flag of a device is false whenever no reader holds a
\* handle for it (open, or not yet found dead), and true whenever a reader is
\* connected to it and reading
C38_FlagTracksReader ==
    \A p \in DOMAIN serial_connected_status :
      /\ (~\E i \in DOMAIN readers : readers[i].port = p /\ readers[i].ser # "none")
           => serial_connected_status[p] = FALSE
      /\ (\E i \in DOMAIN readers : readers[i].port = p /\ Reading(i))
           => serial_connected_status[p] = TRUE

----------------------------------------------------------------------------
(* Regeneration of the session KML *)

\* C39: for every history reachable through updates generate_kml finishes and
\* writes the file: while no write fails, an accepted update leaves the session
\* KML equal to the document of the new history and returns normally
C39_KmlRegenerationCompletes ==
    [][ ( received' # received /\ feed.faults = NoFault /\ resp'.op = "post_detection" )
        => \A k \in {generate_kml(DictsOf(heap', detection_history'), ALIASES')} :
             /\ ~k.raised
             /\ kml_file' = k.doc
             /\ resp'.status = 200 ]_vars

----------------------------------------------------------------------------
(* Cached registry data under ingestion *)

\* C40: an accepted update whose record carries no faa_data leaves every
\* non-empty payload of the cache (registry data with items) in place, under
\* the same (mac, remote ID)
C40_ResolvedPayloadNotEmptied ==
    [][ ( received' # received /\ ~Has(Last(received'), "faa_data") )
        => \A i \in 1..Len(FAA_CACHE) :
             FAA_CACHE[i].val \notin {EmptyPayload, "NOITEMS"}
               => /\ CacheHas(FAA_CACHE', FAA_CACHE[i].key)
                  /\ CacheGet(FAA_CACHE', FAA_CACHE[i].key) = FAA_CACHE[i].val ]_vars

====
